---- MODULE Spec2Model ----
(***************************************************************************)
(* Irrigation motor control of the IoT soil dashboard.                     *)
(*                                                                         *)
(* The state is the motor_control table (the audit log), the latest row of *)
(* sensor_readings, the requests POST /api/motor/auto-control is handling, *)
(* and the React state and the calls in flight of the two components that  *)
(* write the log: the SmartFarmDashboard (lib client) and the              *)
(* MotorControlPanel (HTTP API). An action is what runs between two awaits *)
(* of a handler or of a callback.                                          *)
(*                                                                         *)
(* Sensor values are decimal numbers in thousandths of a unit (the         *)
(* DECIMAL(n,2) columns of sensor_readings hold hundredths, the demo       *)
(* readings of the client have three decimals): 1 mm of rain is            *)
(* U(1) = 1000. Where the program computes with such a value, the model    *)
(* computes with the IEEE-754 double nearest to it.                        *)
(***************************************************************************)
EXTENDS Integers, Sequences, FiniteSets, TLC

VARIABLES
    sensor,      \* latest row of sensor_readings (ordered by timestamp desc)
    log,         \* rows of motor_control in created_at order
    windowed,    \* TRUE: only the newest MaxLog rows of the log are kept
    evals,       \* the requests POST /api/motor/auto-control is handling
    last,        \* summary of the evaluation whose response arrived last
    dSensor,     \* SmartFarmDashboard: sensorData state
    dMotor,      \* SmartFarmDashboard: motorStatus state
    dReqs,       \* SmartFarmDashboard: the client calls in flight
    pMotor,      \* MotorControlPanel: motorStatus state
    isUpdating,  \* MotorControlPanel: isUpdating state
    pReqs,       \* MotorControlPanel: the calls of /api/motor in flight
    pTimers,     \* MotorControlPanel: refreshes set by setTimeout, not yet run
    faults,      \* storage calls that may still fail
    cropTable,   \* batches of rows inserted into crop_recommendations
    cropResponse, \* the last answer of GET /api/crop-recommendations
    cropReqs,    \* the calls of GET /api/crop-recommendations being handled
    scoreCall,   \* the arguments of a call of calculateParameterScore
    scoreReturn, \* what the call returned
    motorPost,   \* the POST /api/motor answered last: its body and its answer
    postReqs,    \* the calls of POST /api/motor being handled
    smsSettings, \* SMSNotificationPanel: settings state (saved as "sms-settings")
    smsCustom,   \* SMSNotificationPanel: customMessage state
    smsLastAlert, \* SMSNotificationPanel: lastAlert state is set
    smsStatus,   \* SMSNotificationPanel: status state
    smsHistory,  \* SMSNotificationPanel: smsHistory state
    smsSaved,    \* localStorage item "sms-history"
    smsReported, \* every SMS the panel was told was sent, oldest first
    smsReqs,     \* SMSNotificationPanel: the requests in flight
    smsTimer,    \* smsHistory as the interval's checkAlerts closed over it
    smsLoading,  \* SMSNotificationPanel: isLoading state
    chatMessages, \* FarmerAssistantChatbot: messages state
    chatLoading, \* FarmerAssistantChatbot: isLoading state
    chatReqs     \* FarmerAssistantChatbot: the requests in flight

vars == <<sensor, log, windowed, evals, last, dSensor, dMotor, dReqs,
          pMotor, isUpdating, pReqs, pTimers, faults, cropTable, cropResponse,
          cropReqs, scoreCall, scoreReturn, motorPost, postReqs, smsSettings,
          smsCustom, smsLastAlert, smsStatus, smsHistory, smsSaved, smsReported,
          smsReqs, smsTimer, smsLoading, chatMessages, chatLoading, chatReqs>>

\* The state of the panel and of the dashboard.
panelVars == <<pMotor, isUpdating, pReqs, pTimers>>
dashVars == <<dSensor, dMotor, dReqs>>

\* The state the irrigation loop never touches.
cropVars == <<cropTable, cropResponse, cropReqs>>
scoreVars == <<scoreCall, scoreReturn>>
smsVars == <<smsSettings, smsCustom, smsLastAlert, smsStatus, smsHistory, smsSaved,
            smsReported, smsReqs, smsTimer, smsLoading>>
chatVars == <<chatMessages, chatLoading, chatReqs>>
postVars == <<motorPost, postReqs>>
auxVars == <<scoreVars, postVars, smsVars, chatVars>>

-----------------------------------------------------------------------------
(* Bounds *)

\* Rows of the audit log the model keeps.
MaxLog == 3

\* Evaluations of the auto-control endpoint in flight at once.
MaxEvals == 2

\* Calls of one component in flight at once.
MaxPending == 2

\* Refreshes of the panel set by setTimeout and not yet run.
MaxTimers == 1

\* Storage calls that fail in one behaviour of a specification with failures.
MaxFaults == 1

\* Batches of crop recommendations kept in the table.
MaxCropBatches == 1

\* Calls of GET /api/crop-recommendations handled at once.
MaxCropCalls == 2

\* Calls of POST /api/motor being handled at once.
MaxPostCalls == 2

-----------------------------------------------------------------------------
(* Values *)

\* n whole units in thousandths.
U(n) == n * 1000

\* A JavaScript value: a number (in thousandths), as every field of a sensor
\* row is, or the null or undefined a field of a request body can be.
Num(n) == [k |-> "num", v |-> n]
Null == [k |-> "null", v |-> 0]
Undefined == [k |-> "undefined", v |-> 0]

Reading(sm, at, ah, rf) ==
    [soil_moisture |-> sm, air_temperature |-> at, air_humidity |-> ah, rainfall |-> rf]

\* The four fields the policy destructures.
PolicyFields == {"soil_moisture", "air_temperature", "air_humidity", "rainfall"}

IsComplete(r) == \A f \in PolicyFields : r[f].k = "num"

\* JavaScript's relational operators on a field and a number: null converts
\* to 0, undefined converts to NaN and every comparison with NaN is false.
JsGt(x, n) == x.k # "undefined" /\ x.v > n
JsLt(x, n) == x.k # "undefined" /\ x.v < n

Abs(x) == IF x < 0 THEN -x ELSE x
Min(a, b) == IF a < b THEN a ELSE b
Max(a, b) == IF a > b THEN a ELSE b

\* Natural numbers of any size: the digits in base 2^15, least significant
\* first, without leading zeros.
RECURSIVE BigOf(_)
BigOf(n) == IF n = 0 THEN <<>> ELSE <<n % 32768>> \o BigOf(n \div 32768)

RECURSIVE BigTrim(_)
BigTrim(a) ==
    IF a # <<>> /\ a[Len(a)] = 0 THEN BigTrim(SubSeq(a, 1, Len(a) - 1)) ELSE a

BigDigit(a, i) == IF i <= Len(a) THEN a[i] ELSE 0

RECURSIVE BigAddFrom(_, _, _, _)
BigAddFrom(a, b, i, carry) ==
    IF i > Len(a) /\ i > Len(b) THEN (IF carry = 0 THEN <<>> ELSE <<carry>>)
    ELSE LET s == BigDigit(a, i) + BigDigit(b, i) + carry
         IN  <<s % 32768>> \o BigAddFrom(a, b, i + 1, s \div 32768)

BigAdd(a, b) == BigAddFrom(a, b, 1, 0)

\* a - b for a >= b.
RECURSIVE BigSubFrom(_, _, _, _)
BigSubFrom(a, b, i, borrow) ==
    IF i > Len(a) THEN <<>>
    ELSE LET s == a[i] - BigDigit(b, i) - borrow
         IN  IF s < 0 THEN <<s + 32768>> \o BigSubFrom(a, b, i + 1, 1)
             ELSE <<s>> \o BigSubFrom(a, b, i + 1, 0)

BigSub(a, b) == BigTrim(BigSubFrom(a, b, 1, 0))

\* -1, 0 or 1 as a is below, equal to or above b.
RECURSIVE BigCmpFrom(_, _, _)
BigCmpFrom(a, b, i) ==
    IF i = 0 THEN 0
    ELSE IF a[i] < b[i] THEN -1
    ELSE IF a[i] > b[i] THEN 1
    ELSE BigCmpFrom(a, b, i - 1)

BigCmp(a, b) ==
    IF Len(a) < Len(b) THEN -1
    ELSE IF Len(a) > Len(b) THEN 1
    ELSE BigCmpFrom(a, b, Len(a))

\* a * k for 0 <= k < 2^15.
RECURSIVE BigMulFrom(_, _, _, _)
BigMulFrom(a, k, i, carry) ==
    IF i > Len(a) THEN (IF carry = 0 THEN <<>> ELSE <<carry>>)
    ELSE LET p == a[i] * k + carry
         IN  <<p % 32768>> \o BigMulFrom(a, k, i + 1, p \div 32768)

BigMulSmall(a, k) == BigTrim(BigMulFrom(a, k, 1, 0))

\* Quotient and remainder of a by k, 0 < k <= 2^15.
RECURSIVE BigDivFrom(_, _, _, _)
BigDivFrom(a, k, i, rem) ==
    IF i = 0 THEN [q |-> <<>>, r |-> rem]
    ELSE LET cur == rem * 32768 + a[i]
             rest == BigDivFrom(a, k, i - 1, cur % k)
         IN  [q |-> Append(rest.q, cur \div k), r |-> rest.r]

\* A quotient without leading zeros, and the remainder.
Trimmed(d) == [q |-> BigTrim(d.q), r |-> d.r]

BigDivSmall(a, k) == Trimmed(BigDivFrom(a, k, Len(a), 0))

\* a * 2^n and floor(a / 2^n).
BigShl(a, n) ==
    IF a = <<>> THEN <<>>
    ELSE [i \in 1..(n \div 15) |-> 0] \o BigMulSmall(a, 2 ^ (n % 15))

BigShr(a, n) ==
    IF Len(a) <= n \div 15 THEN <<>>
    ELSE BigDivSmall(SubSeq(a, n \div 15 + 1, Len(a)), 2 ^ (n % 15)).q

RECURSIVE BitLength(_)
BitLength(n) == IF n = 0 THEN 0 ELSE 1 + BitLength(n \div 2)

BigBits(a) == IF a = <<>> THEN 0 ELSE 15 * (Len(a) - 1) + BitLength(a[Len(a)])

\* The natural number a, for a < 2^30.
BigToInt(a) == BigDigit(a, 1) + 32768 * BigDigit(a, 2)

\* The steps of the rounding below: s bits are dropped, kept holds the
\* leading bits and c compares what is dropped with half a unit of kept.
FlUp(kept, s, c, inexact) ==
    BigShl(IF c > 0 \/ (c = 0 /\ (inexact \/ kept[1] % 2 = 1)) THEN BigAdd(kept, <<1>>)
           ELSE kept,
           s)

FlKept(a, inexact, s, kept) ==
    FlUp(kept, s, BigCmp(BigSub(a, BigShl(kept, s)), BigShl(<<1>>, s - 1)), inexact)

FlDrop(a, inexact, s) == IF s <= 0 THEN a ELSE FlKept(a, inexact, s, BigShr(a, s))

\* Rounding to a double: a counts units of 2^-90, inexact tells that the
\* exact value lies above a and below a + 1. The 53 leading bits are kept,
\* rounded to nearest, to even on a tie.
Fl(a, inexact) == FlDrop(a, inexact, BigBits(a) - 53)

\* A double: not a number, or a sign and a magnitude in units of 2^-90.
Double(neg, mag) == [nan |-> FALSE, neg |-> neg /\ mag # <<>>, mag |-> mag]
NaN == [nan |-> TRUE, neg |-> FALSE, mag |-> <<>>]

\* The double nearest to a quotient, d being its integer part and remainder.
RoundedQuotient(neg, d) == Double(neg, Fl(d.q, d.r # 0))

\* The double nearest to n thousandths: what a JSON number or a literal with
\* three decimals is parsed to.
DoubleOf(n) ==
    RoundedQuotient(n < 0, BigDivSmall(BigShl(BigOf(IF n < 0 THEN -n ELSE n), 90), 1000))

\* The double nearest to the magnitude an operation gives exactly.
Rounded(neg, mag) == Double(neg, Fl(mag, FALSE))

\* x + y, x - y.
DoubleAdd(x, y) ==
    IF x.nan \/ y.nan THEN NaN
    ELSE IF x.neg = y.neg THEN Rounded(x.neg, BigAdd(x.mag, y.mag))
    ELSE Rounded(IF BigCmp(x.mag, y.mag) >= 0 THEN x.neg ELSE y.neg,
                 IF BigCmp(x.mag, y.mag) >= 0 THEN BigSub(x.mag, y.mag)
                 ELSE BigSub(y.mag, x.mag))

DoubleSub(x, y) == DoubleAdd(x, [y EXCEPT !.neg = ~y.neg /\ y.mag # <<>>])

\* x * k for a whole number k >= 0.
DoubleTimes(x, k) == IF x.nan THEN NaN ELSE Rounded(x.neg, BigMulSmall(x.mag, k))

\* x / (k / 2) for a whole number k >= 0; 0 / 0 is NaN.
DoubleOverHalf(x, k) ==
    IF x.nan \/ k = 0 THEN NaN
    ELSE RoundedQuotient(x.neg, BigDivSmall(BigShl(x.mag, 1), k))

\* -1, 0 or 1 as x is below, equal to or above y (neither is NaN).
DoubleCmp(x, y) ==
    IF x.neg # y.neg THEN (IF x.neg THEN -1 ELSE 1)
    ELSE IF x.neg THEN BigCmp(y.mag, x.mag)
    ELSE BigCmp(x.mag, y.mag)

\* Math.min and Math.max of two doubles, neither NaN.
DoubleMin(x, y) == IF DoubleCmp(x, y) <= 0 THEN x ELSE y
DoubleMax(x, y) == IF DoubleCmp(x, y) >= 0 THEN x ELSE y

\* Whether the double nearest to m thousandths lies below m thousandths.
DoubleBelow(m) == BigCmp(BigMulSmall(DoubleOf(m).mag, 1000), BigShl(BigOf(m), 90)) < 0

\* Number.prototype.toFixed(1) of a value in thousandths: the sign, the
\* integer part and the digit. The sign is taken off first; the magnitude is
\* rounded to the nearest tenth of the double, the larger one on a tie.
toFixed1(n) ==
    LET m == IF n < 0 THEN -n ELSE n
        up == m % 100 > 50 \/ (m % 100 = 50 /\ ~DoubleBelow(m))
        tenths == m \div 100 + (IF up THEN 1 ELSE 0)
    IN  <<IF n < 0 THEN "-" ELSE "", tenths \div 10, tenths % 10>>

\* Thrown by x.toFixed(1) when x is null or undefined.
TypeError == <<"TypeError">>

\* A template literal with the given fields formatted by toFixed(1).
Template(kind, args) ==
    IF \E i \in 1..Len(args) : args[i].k # "num"
    THEN TypeError
    ELSE <<kind>> \o [i \in 1..Len(args) |-> toFixed1(args[i].v)]

NoRow == [none |-> TRUE]

\* s without its i-th element.
RemoveAt(s, i) == [j \in 1..(Len(s) - 1) |-> IF j < i THEN s[j] ELSE s[j + 1]]

MotorRow(status, mode, reason, changed_by) ==
    [status |-> status, mode |-> mode, reason |-> reason, changed_by |-> changed_by]

\* The row the schema script inserts.
InitialRow == MotorRow(FALSE, "automatic", <<"Initial setup">>, "system")

-----------------------------------------------------------------------------
(* Irrigation policy: app/api/motor/auto-control/route.ts *)

\* Mutant: the low-moisture rule is tried before the rainfall rule.
determineMotorAction_MoistureFirst(sensorData) ==
    IF JsLt(sensorData.soil_moisture, U(30)) THEN TRUE
    ELSE IF JsGt(sensorData.rainfall, U(1)) THEN FALSE
    ELSE IF JsGt(sensorData.soil_moisture, U(60)) THEN FALSE
    ELSE IF /\ JsLt(sensorData.soil_moisture, U(40))
            /\ JsGt(sensorData.air_temperature, U(30))
            /\ JsLt(sensorData.air_humidity, U(50)) THEN TRUE
    ELSE FALSE

\* Mutant: the hot-and-dry rule is missing.
determineMotorAction_NoHotDry(sensorData) ==
    IF JsGt(sensorData.rainfall, U(1)) THEN FALSE
    ELSE IF JsLt(sensorData.soil_moisture, U(30)) THEN TRUE
    ELSE FALSE

determineMotorAction(sensorData) ==
    IF JsGt(sensorData.rainfall, U(1)) THEN FALSE
    ELSE IF JsLt(sensorData.soil_moisture, U(30)) THEN TRUE
    ELSE IF JsGt(sensorData.soil_moisture, U(60)) THEN FALSE
    ELSE IF /\ JsLt(sensorData.soil_moisture, U(40))
            /\ JsGt(sensorData.air_temperature, U(30))
            /\ JsLt(sensorData.air_humidity, U(50)) THEN TRUE
    ELSE FALSE

\* Mutant: every activation below 30 % is reported as low, never critical.
generateAutoControlReason_NoCritical(sensorData, shouldActivate) ==
    LET sm == sensorData.soil_moisture
        at == sensorData.air_temperature
        ah == sensorData.air_humidity
        rf == sensorData.rainfall
        generic == Template("Automatic control based on sensor readings", <<sm, at>>)
    IN  IF JsGt(rf, U(1)) THEN Template("Deactivated due to rainfall", <<rf>>)
        ELSE IF shouldActivate
        THEN IF JsLt(sm, U(30)) THEN Template("Low soil moisture", <<sm>>)
             ELSE IF JsGt(at, U(30)) /\ JsLt(ah, U(50))
                  THEN Template("Hot and dry conditions", <<at, ah>>)
             ELSE generic
        ELSE IF JsGt(sm, U(70)) THEN Template("High soil moisture", <<sm>>)
             ELSE IF JsGt(sm, U(60)) THEN Template("Adequate soil moisture", <<sm>>)
             ELSE generic

\* Mutant: a deactivation between 60 % and 70 % gets the generic reason.
generateAutoControlReason_NoAdequate(sensorData, shouldActivate) ==
    LET sm == sensorData.soil_moisture
        at == sensorData.air_temperature
        ah == sensorData.air_humidity
        rf == sensorData.rainfall
        generic == Template("Automatic control based on sensor readings", <<sm, at>>)
    IN  IF JsGt(rf, U(1)) THEN Template("Deactivated due to rainfall", <<rf>>)
        ELSE IF shouldActivate
        THEN IF JsLt(sm, U(20)) THEN Template("Critical soil moisture level", <<sm>>)
             ELSE IF JsLt(sm, U(30)) THEN Template("Low soil moisture", <<sm>>)
             ELSE IF JsGt(at, U(30)) /\ JsLt(ah, U(50))
                  THEN Template("Hot and dry conditions", <<at, ah>>)
             ELSE generic
        ELSE IF JsGt(sm, U(70)) THEN Template("High soil moisture", <<sm>>)
             ELSE generic

generateAutoControlReason(sensorData, shouldActivate) ==
    LET sm == sensorData.soil_moisture
        at == sensorData.air_temperature
        ah == sensorData.air_humidity
        rf == sensorData.rainfall
        generic == Template("Automatic control based on sensor readings", <<sm, at>>)
    IN  IF JsGt(rf, U(1)) THEN Template("Deactivated due to rainfall", <<rf>>)
        ELSE IF shouldActivate
        THEN IF JsLt(sm, U(20)) THEN Template("Critical soil moisture level", <<sm>>)
             ELSE IF JsLt(sm, U(30)) THEN Template("Low soil moisture", <<sm>>)
             ELSE IF JsGt(at, U(30)) /\ JsLt(ah, U(50))
                  THEN Template("Hot and dry conditions", <<at, ah>>)
             ELSE generic
        ELSE IF JsGt(sm, U(70)) THEN Template("High soil moisture", <<sm>>)
             ELSE IF JsGt(sm, U(60)) THEN Template("Adequate soil moisture", <<sm>>)
             ELSE generic

-----------------------------------------------------------------------------
(* The motor_control table *)

\* Mutant: the rows are ordered by created_at ascending.
Latest_Ascending(rows) == rows[1]

\* .order("created_at", { ascending: false }).limit(1)
Latest(rows) == rows[Len(rows)]

\* A storage call succeeds (ok) or fails; the model counts the failures left.
Storage(ok) ==
    IF ok THEN faults' = faults ELSE faults > 0 /\ faults' = faults - 1

\* Room for one more row (always, when only the newest rows are kept).
CanInsert == windowed \/ Len(log) < MaxLog

\* Mutant: the current row is updated in place.
InsertRow_InPlace(rows, row) ==
    IF rows = <<>> THEN <<row>> ELSE [rows EXCEPT ![Len(rows)] = row]

\* .insert([row]): a new row with created_at = NOW(), after all others.
InsertRow(rows, row) ==
    IF Len(rows) < MaxLog THEN Append(rows, row) ELSE Append(Tail(rows), row)

-----------------------------------------------------------------------------
(* POST /api/motor/auto-control: app/api/motor/auto-control/route.ts *)

\* What one evaluation did: its response, whether the policy was evaluated
\* and to what, whether a row was inserted, and the motor status it had read.
Run(result, decided, shouldActivate, appended, currentStatus) ==
    [result |-> result, decided |-> decided, shouldActivate |-> shouldActivate,
     appended |-> appended, currentStatus |-> currentStatus]

NoRun == Run("-", FALSE, FALSE, FALSE, FALSE)

\* A request the endpoint is handling: the await its handler stands at, who
\* sent it, whether no other request has been in flight with it, the sensor
\* row it read, the row it is about to insert and what it did.
Evaluation(caller, solo) ==
    [pc |-> "start", caller |-> caller, solo |-> solo, sensorData |-> NoRow,
     row |-> NoRow, run |-> NoRun]

\* fetch("/api/motor/auto-control", { method: "POST" }): nothing keeps a
\* request from arriving while others are being handled.
Call(caller) ==
    /\ Len(evals) < MaxEvals
    /\ evals' = Append([i \in 1..Len(evals) |-> [evals[i] EXCEPT !.solo = FALSE]],
                       Evaluation(caller, evals = <<>>))

\* return NextResponse.json(...): the handler is done, the response is on
\* its way to the caller.
Answer(i, run) == evals' = [evals EXCEPT ![i].pc = "done", ![i].run = run]

\* Mutant: without a row the handler goes on with a reading of zeros.
RouteReadSensor_Zeros(ok) ==
    \E i \in 1..Len(evals) :
        /\ Storage(ok)
        /\ evals[i].pc = "start"
        /\ evals' = [evals EXCEPT
                       ![i].pc = "sensor",
                       ![i].sensorData = IF ok /\ sensor # NoRow THEN sensor
                                         ELSE Reading(Num(0), Num(0), Num(0), Num(0))]
        /\ UNCHANGED <<sensor, log, windowed, last>>
        /\ UNCHANGED <<panelVars, dashVars, cropVars, auxVars>>

\* Lines 9-19: the latest sensor row is read; .single() gives an error when
\* the table is empty.
RouteReadSensor(ok) ==
    \E i \in 1..Len(evals) :
        /\ Storage(ok)
        /\ evals[i].pc = "start"
        /\ IF ok /\ sensor # NoRow
           THEN evals' = [evals EXCEPT ![i].pc = "sensor", ![i].sensorData = sensor]
           ELSE Answer(i, Run("error", FALSE, FALSE, FALSE, FALSE))
        /\ UNCHANGED <<sensor, log, windowed, last>>
        /\ UNCHANGED <<panelVars, dashVars, cropVars, auxVars>>

\* Mutant: the row is written whether or not the status changes.
StatusNeedsChange_Always(shouldActivate, currentStatus) == TRUE

\* Line 48: only update if status needs to change.
StatusNeedsChange(shouldActivate, currentStatus) == shouldActivate # currentStatus

\* Lines 21-50: the current motor row is read; the rest of the handler up to
\* the insert is synchronous. .single() fails on an empty table.
RouteReadMotor(ok) ==
    \E i \in 1..Len(evals) :
        /\ Storage(ok)
        /\ evals[i].pc = "sensor"
        /\  LET sensorData == evals[i].sensorData
                motorData == Latest(log)
                shouldActivate == determineMotorAction(sensorData)
                reason == generateAutoControlReason(sensorData, shouldActivate)
            IN  IF ~ok \/ log = <<>>
                THEN Answer(i, Run("error", FALSE, FALSE, FALSE, FALSE))
                ELSE IF motorData.mode # "automatic"
                THEN Answer(i, Run("none", FALSE, FALSE, FALSE, motorData.status))
                ELSE IF ~StatusNeedsChange(shouldActivate, motorData.status)
                THEN Answer(i, Run("none", TRUE, shouldActivate, FALSE, motorData.status))
                ELSE IF reason = TypeError
                THEN Answer(i, Run("error", TRUE, shouldActivate, FALSE, motorData.status))
                ELSE evals' = [evals EXCEPT
                                 ![i].pc = "insert",
                                 ![i].row = MotorRow(shouldActivate, "automatic", reason,
                                                     "system"),
                                 ![i].run = Run("error", TRUE, shouldActivate, FALSE,
                                                motorData.status)]
        /\ UNCHANGED <<sensor, log, windowed, last>>
        /\ UNCHANGED <<panelVars, dashVars, cropVars, auxVars>>

\* Mutant: a failed insert still leaves its row in the table.
RouteInsert_WriteThenFail(ok) ==
    \E i \in 1..Len(evals) :
        /\ Storage(ok)
        /\ evals[i].pc = "insert"
        /\ CanInsert
        /\ log' = InsertRow(log, evals[i].row)
        /\ IF ok
           THEN Answer(i, [evals[i].run EXCEPT
                             !.result = IF evals[i].row.status THEN "activated"
                                        ELSE "deactivated",
                             !.appended = TRUE])
           ELSE Answer(i, evals[i].run)
        /\ UNCHANGED <<sensor, windowed, last>>
        /\ UNCHANGED <<panelVars, dashVars, cropVars, auxVars>>

\* Lines 52-68: the insert reaches the table. From then on the row is the
\* current one, while the handler awaits simulateMotorCommand (line 71) and
\* the response of lines 73-83 is still to reach the caller.
RouteInsert(ok) ==
    \E i \in 1..Len(evals) :
        /\ Storage(ok)
        /\ evals[i].pc = "insert"
        /\ IF ok
           THEN /\ CanInsert
                /\ log' = InsertRow(log, evals[i].row)
                /\ Answer(i, [evals[i].run EXCEPT
                                !.result = IF evals[i].row.status THEN "activated"
                                           ELSE "deactivated",
                                !.appended = TRUE])
           ELSE /\ log' = log
                /\ Answer(i, evals[i].run)
        /\ UNCHANGED <<sensor, windowed, last>>
        /\ UNCHANGED <<panelVars, dashVars, cropVars, auxVars>>

\* What the caller does with the response. A client that keeps no state
\* does nothing. runAutoControl (lines 817-828) schedules a refresh unless
\* the action is none (an error answer has no action) and clears isUpdating;
\* switchToAutomatic (lines 803-808) always schedules one and clears
\* isUpdating.
Respond(caller, run) ==
    IF caller = "direct" THEN UNCHANGED <<isUpdating, pTimers>>
    ELSE /\ isUpdating' = FALSE
         /\ IF caller = "switch" \/ run.result # "none"
            THEN pTimers < MaxTimers /\ pTimers' = pTimers + 1
            ELSE pTimers' = pTimers

\* The response of an evaluation reaches its caller.
RouteRespond ==
    \E i \in 1..Len(evals) :
        /\ evals[i].pc = "done"
        /\ evals' = RemoveAt(evals, i)
        /\ last' = evals[i].run
        /\ Respond(evals[i].caller, evals[i].run)
        /\ UNCHANGED <<sensor, log, windowed, faults, pMotor, pReqs>>
        /\ UNCHANGED <<dashVars, cropVars, auxVars>>

\* The endpoint is called by a client that keeps no state of its own.
RouteDirect ==
    /\ Call("direct")
    /\ UNCHANGED <<sensor, log, windowed, last, faults>>
    /\ UNCHANGED <<panelVars, dashVars, cropVars, auxVars>>

-----------------------------------------------------------------------------
(* MotorControlPanel: components/historical-analysis.tsx, lines 694-1070,   *)
(* and the /api/motor handlers it calls: app/api/motor/route.ts             *)

\* What GET /api/motor answers when the read fails.
GetErrorRow == MotorRow(FALSE, "automatic", <<"Database connection error">>, "system")

\* What GET /api/motor answers, with HTTP 500, when its handler throws.
GetSystemErrorRow == MotorRow(FALSE, "automatic", <<"System error">>, "system")

\* How a call of GET /api/motor goes: the row is read, the read reports an
\* error, or something in the handler throws.
GetOutcomes == {"ok", "error", "throw"}

\* Mutant: the rows are ordered by created_at ascending.
GET_Ascending(outcome) ==
    IF outcome = "throw" THEN GetSystemErrorRow
    ELSE IF outcome = "ok" /\ log # <<>> THEN log[1]
    ELSE GetErrorRow

\* GET /api/motor; .single() reports an error on an empty table.
GET(outcome) ==
    IF outcome = "throw" THEN GetSystemErrorRow
    ELSE IF outcome = "ok" /\ log # <<>> THEN Latest(log)
    ELSE GetErrorRow

\* A call of /api/motor by the panel: a toggle or a switch with the body it
\* posts, or a fetch; sent, or answered with the row of the response (NoRow
\* for an answer that is not ok).
Request(kind, body) == [kind |-> kind, stage |-> "sent", body |-> body, response |-> NoRow]

\* fetchMotorStatus, lines 733-734: the request is sent and GET /api/motor
\* reads the table; the response is on its way.
fetchMotorStatus(outcome) ==
    /\ Storage(outcome = "ok")
    /\ Len(pReqs) < MaxPending
    /\ pReqs' = Append(pReqs, [Request("fetch", NoRow) EXCEPT
                                 !.stage = "answered", !.response = GET(outcome)])

\* fetchMotorStatus called on mount, by the 30 s interval or by the Refresh
\* Status button.
PanelFetch(outcome) ==
    /\ fetchMotorStatus(outcome)
    /\ UNCHANGED <<sensor, log, windowed, evals, last, pMotor, isUpdating, pTimers>>
    /\ UNCHANGED <<dashVars, cropVars, auxVars>>

\* fetchMotorStatus called by a timer that runAutoControl or
\* switchToAutomatic has set.
PanelRefresh(outcome) ==
    /\ pTimers > 0
    /\ pTimers' = pTimers - 1
    /\ fetchMotorStatus(outcome)
    /\ UNCHANGED <<sensor, log, windowed, evals, last, pMotor, isUpdating>>
    /\ UNCHANGED <<dashVars, cropVars, auxVars>>

\* fetchMotorStatus, line 735: the response has arrived and is stored,
\* whatever its HTTP status.
PanelFetchDone ==
    \E i \in 1..Len(pReqs) :
        /\ pReqs[i].kind = "fetch"
        /\ pMotor' = pReqs[i].response
        /\ pReqs' = RemoveAt(pReqs, i)
        /\ UNCHANGED <<sensor, log, windowed, evals, last, isUpdating, pTimers, faults>>
        /\ UNCHANGED <<dashVars, cropVars, auxVars>>

\* The body toggleMotor posts.
ToggleBody(motorStatus) ==
    MotorRow(~motorStatus.status, "manual",
             IF ~motorStatus.status THEN <<"Manual activation by user">>
                                    ELSE <<"Manual deactivation by user">>,
             "user")

\* The body switchToAutomatic posts.
SwitchBody(motorStatus) ==
    MotorRow(motorStatus.status, "automatic", <<"Switched to automatic mode">>, "user")

\* toggleMotor up to the fetch: the Stop/Start button is clicked.
PanelToggle ==
    /\ pMotor # NoRow /\ ~isUpdating
    /\ Len(pReqs) < MaxPending
    /\ isUpdating' = TRUE
    /\ pReqs' = Append(pReqs, Request("toggle", ToggleBody(pMotor)))
    /\ UNCHANGED <<sensor, log, windowed, evals, last, pMotor, pTimers, faults>>
    /\ UNCHANGED <<dashVars, cropVars, auxVars>>

\* switchToAutomatic up to the fetch: Auto Mode is clicked (the button and
\* the switch only offer it while the displayed mode is not automatic).
PanelSwitch ==
    /\ pMotor # NoRow /\ ~isUpdating
    /\ pMotor.mode # "automatic"
    /\ Len(pReqs) < MaxPending
    /\ isUpdating' = TRUE
    /\ pReqs' = Append(pReqs, Request("switch", SwitchBody(pMotor)))
    /\ UNCHANGED <<sensor, log, windowed, evals, last, pMotor, pTimers, faults>>
    /\ UNCHANGED <<dashVars, cropVars, auxVars>>

\* POST /api/motor handles a request of the panel, lines 72-88: the insert
\* reaches the table, or fails and 500 is answered. From then on the row is
\* the current one, while the handler awaits simulateMotorCommand (line 91)
\* and the response is still to reach the panel.
PanelPost(ok) ==
    \E i \in 1..Len(pReqs) :
        /\ Storage(ok)
        /\ pReqs[i].kind \in {"toggle", "switch"}
        /\ pReqs[i].stage = "sent"
        /\ IF ok
           THEN /\ CanInsert
                /\ log' = InsertRow(log, pReqs[i].body)
                /\ pReqs' = [pReqs EXCEPT ![i].stage = "answered",
                                          ![i].response = pReqs[i].body]
           ELSE /\ log' = log
                /\ pReqs' = [pReqs EXCEPT ![i].stage = "answered"]
        /\ UNCHANGED <<sensor, windowed, evals, last, pMotor, isUpdating, pTimers>>
        /\ UNCHANGED <<dashVars, cropVars, auxVars>>

\* toggleMotor, lines 760-772: the response has arrived; the row of an ok
\* response is stored, and isUpdating is cleared in any case.
PanelToggleDone ==
    \E i \in 1..Len(pReqs) :
        /\ pReqs[i].kind = "toggle"
        /\ pReqs[i].stage = "answered"
        /\ pMotor' = IF pReqs[i].response # NoRow THEN pReqs[i].response ELSE pMotor
        /\ isUpdating' = FALSE
        /\ pReqs' = RemoveAt(pReqs, i)
        /\ UNCHANGED <<sensor, log, windowed, evals, last, pTimers, faults>>
        /\ UNCHANGED <<dashVars, cropVars, auxVars>>

\* switchToAutomatic, lines 792-801: the response has arrived; the row of an
\* ok response is stored and the auto-control endpoint is called at once,
\* otherwise isUpdating is cleared.
PanelSwitchAuto ==
    \E i \in 1..Len(pReqs) :
        /\ pReqs[i].kind = "switch"
        /\ pReqs[i].stage = "answered"
        /\ IF pReqs[i].response # NoRow
           THEN /\ pMotor' = pReqs[i].response
                /\ Call("switch")
                /\ UNCHANGED isUpdating
           ELSE /\ isUpdating' = FALSE
                /\ UNCHANGED <<pMotor, evals>>
        /\ pReqs' = RemoveAt(pReqs, i)
        /\ UNCHANGED <<sensor, log, windowed, last, pTimers, faults>>
        /\ UNCHANGED <<dashVars, cropVars, auxVars>>

\* runAutoControl, lines 814-816, fired by the one-minute interval that
\* exists while the displayed mode is automatic.
PanelAutoControl ==
    /\ pMotor # NoRow /\ pMotor.mode = "automatic"
    /\ isUpdating' = TRUE
    /\ Call("timer")
    /\ UNCHANGED <<sensor, log, windowed, last, pMotor, pReqs, pTimers, faults>>
    /\ UNCHANGED <<dashVars, cropVars, auxVars>>

-----------------------------------------------------------------------------
(* SmartFarmDashboard: components/smart-farm-dashboard.tsx, and the client   *)
(* it uses: lib/supabase-client.ts                                          *)

\* Outcomes of Math.random() the model draws, in thousandths.
RandomDraws == {207, 999}

\* The eight fields generateDemoReading draws, each with its own call of
\* Math.random().
DemoFields ==
    {"soil_moisture", "soil_temperature", "soil_humidity", "air_temperature",
     "air_humidity", "pressure", "rainfall", "ammonia"}

\* generateDemoReading, lines 188-195: centre + (Math.random() - 0.5) * width
\* between the bounds of Math.max and Math.min; r gives the draw of each
\* field in thousandths. (For the draws of the model the double the code
\* computes shows the same digits as the decimal value.)
generateDemoReading(r) ==
    [soil_moisture |-> Num(Max(0, Min(U(100), U(45) + (r.soil_moisture - 500) * 20))),
     soil_temperature |-> Num(Max(0, Min(U(50), U(22) + (r.soil_temperature - 500) * 8))),
     soil_humidity |-> Num(Max(0, Min(U(100), U(60) + (r.soil_humidity - 500) * 25))),
     air_temperature |-> Num(Max(-U(10), Min(U(50), U(24) + (r.air_temperature - 500) * 10))),
     air_humidity |-> Num(Max(0, Min(U(100), U(65) + (r.air_humidity - 500) * 30))),
     pressure |-> Num(Max(U(95), Min(U(110), U(101) + 300 + (r.pressure - 500) * 2))),
     rainfall |-> Num(Max(0, r.rainfall * 5)),
     ammonia |-> Num(Max(0, Min(U(50), U(15) + (r.ammonia - 500) * 10)))]

\* The demo readings of the model: every field has its own draw.
DemoReadings == {generateDemoReading(r) : r \in [DemoFields -> RandomDraws]}

\* SmartFarmClient.getLatestReading after its read, lines 38-55: data is the
\* latest row, or NoRow when the read failed or the table is empty, and then
\* the reading is demo data.
getLatestReading(data) == IF data = NoRow THEN DemoReadings ELSE {data}

\* FarmerAssistantChatbot, the effect on [sensorData]: the message the
\* transcript is set to (TypeError when a value shown is not a number).
WelcomeMessage(sensorData) ==
    [role |-> "assistant", id |-> "welcome",
     content |-> Template("Hello! I'm your AI farming assistant.",
                          <<sensorData.soil_moisture, sensorData.air_temperature,
                            sensorData.soil_temperature, sensorData.air_humidity>>)]

\* A call of the client by the dashboard that has not returned: the kind
\* of call ("insert": updateMotorStatus before its insert, "update": after
\* it) and the row it read, is to insert or has inserted.
Pending(kind, value) == [kind |-> kind, value |-> value]

\* fetchLatestData, line 61: called on mount and every 30 s; the client
\* reads the table (lines 31-36 of the client) and the result is on its way.
DashFetchSensor(ok) ==
    /\ Storage(ok)
    /\ Len(dReqs) < MaxPending
    /\ dReqs' = Append(dReqs, Pending("sensor", IF ok THEN sensor ELSE NoRow))
    /\ UNCHANGED <<sensor, log, windowed, evals, last, dSensor, dMotor>>
    /\ UNCHANGED <<panelVars, cropVars, auxVars>>

\* Line 134 of the auto motor effect.
DashShouldActivate(sensorData) == JsLt(sensorData.soil_moisture, U(30))

\* The row the auto motor effect passes to updateMotorStatus (TypeError when
\* the moisture is not a number).
DashAutoRow(sensorData) ==
    LET shouldActivate == DashShouldActivate(sensorData)
        reason == Template(IF shouldActivate THEN "Automatic activation - soil moisture"
                                             ELSE "Automatic deactivation - soil moisture",
                           <<sensorData.soil_moisture>>)
    IN  IF reason = TypeError THEN NoRow
        ELSE MotorRow(shouldActivate, "automatic", reason, "system")

\* The auto motor effect, lines 132-147, as it runs after a render with the
\* given sensorData and motorStatus: the calls of updateMotorStatus it
\* starts. The row is built from the values of that render.
DashAutoEffect(sensorData, motorStatus) ==
    IF sensorData = NoRow \/ motorStatus = NoRow THEN <<>>
    ELSE IF motorStatus.mode # "automatic" THEN <<>>
    ELSE IF DashShouldActivate(sensorData) = motorStatus.status THEN <<>>
    ELSE IF DashAutoRow(sensorData) = NoRow THEN <<>>
    ELSE <<Pending("insert", DashAutoRow(sensorData))>>

\* fetchLatestData, line 62: getLatestReading returns the row or a demo
\* reading and setSensorData stores it as a new object, so after the render
\* the auto motor effect runs, and so does the effect of a mounted chatbot
\* (one with a transcript).
DashSensorDone ==
    \E i \in 1..Len(dReqs) :
        /\ dReqs[i].kind = "sensor"
        /\ \E reading \in getLatestReading(dReqs[i].value) : dSensor' = reading
        /\ dReqs' = RemoveAt(dReqs, i) \o DashAutoEffect(dSensor', dMotor)
        /\ chatMessages' = IF chatMessages = <<>> THEN chatMessages
                           ELSE <<WelcomeMessage(dSensor')>>
        /\ UNCHANGED <<sensor, log, windowed, evals, last, dMotor, faults>>
        /\ UNCHANGED <<panelVars, cropVars, scoreVars, postVars, smsVars, chatLoading,
                       chatReqs>>

\* What getMotorStatus returns when the read or the seeding insert fails.
ClientDefaultRow ==
    MotorRow(FALSE, "automatic", <<"System default - database error">>, "system")

\* The row getMotorStatus inserts into an empty table.
ClientSeedRow == MotorRow(FALSE, "automatic", <<"Initial system setup">>, "system")

\* fetchMotorStatus -> SmartFarmClient.getMotorStatus, lines 103-109 of the
\* client: called on mount and every 30 s; the table is read. On an empty
\* table the seeding insert is still to come.
DashFetchMotor(ok) ==
    /\ Storage(ok)
    /\ Len(dReqs) < MaxPending
    /\ dReqs' = Append(dReqs,
                       IF ~ok THEN Pending("motor", ClientDefaultRow)
                       ELSE IF log = <<>> THEN Pending("seed", ClientSeedRow)
                       ELSE Pending("motor", Latest(log)))
    /\ UNCHANGED <<sensor, log, windowed, evals, last, dSensor, dMotor>>
    /\ UNCHANGED <<panelVars, cropVars, auxVars>>

\* getMotorStatus, line 114 of the client: updateMotorStatus inserts the
\* seed row; when that fails the catch returns the default row.
DashSeed(ok) ==
    \E i \in 1..Len(dReqs) :
        /\ Storage(ok)
        /\ dReqs[i].kind = "seed"
        /\ IF ok
           THEN /\ CanInsert
                /\ log' = InsertRow(log, dReqs[i].value)
                /\ dReqs' = [dReqs EXCEPT ![i].kind = "motor"]
           ELSE /\ log' = log
                /\ dReqs' = [dReqs EXCEPT ![i] = Pending("motor", ClientDefaultRow)]
        /\ UNCHANGED <<sensor, windowed, evals, last, dSensor, dMotor>>
        /\ UNCHANGED <<panelVars, cropVars, auxVars>>

\* The row the dashboard's toggleMotor passes to updateMotorStatus.
DashToggleRow(motorStatus) ==
    MotorRow(~motorStatus.status, "manual",
             IF ~motorStatus.status THEN <<"Manual activation by user">>
                                    ELSE <<"Manual deactivation by user">>,
             "user")

\* toggleMotor, lines 93-102: the Motor ON/OFF button of the header is
\* clicked; the row is built from the motorStatus shown and
\* updateMotorStatus is called.
DashToggle ==
    /\ dMotor # NoRow
    /\ Len(dReqs) < MaxPending
    /\ dReqs' = Append(dReqs, Pending("insert", DashToggleRow(dMotor)))
    /\ UNCHANGED <<sensor, log, windowed, evals, last, dSensor, dMotor, faults>>
    /\ UNCHANGED <<panelVars, cropVars, auxVars>>

\* SmartFarmClient.updateMotorStatus, lines 142-154 of the client, called by
\* toggleMotor or by the auto motor effect: the insert reaches the table and
\* the inserted row is on its way back. When the insert fails the call
\* rejects: toggleMotor only reports it, the effect leaves it unhandled.
updateMotorStatus(ok) ==
    \E i \in 1..Len(dReqs) :
        /\ Storage(ok)
        /\ dReqs[i].kind = "insert"
        /\ IF ok
           THEN /\ CanInsert
                /\ log' = InsertRow(log, dReqs[i].value)
                /\ dReqs' = [dReqs EXCEPT ![i].kind = "update"]
           ELSE /\ log' = log
                /\ dReqs' = RemoveAt(dReqs, i)
        /\ UNCHANGED <<sensor, windowed, evals, last, dSensor, dMotor>>
        /\ UNCHANGED <<panelVars, cropVars, auxVars>>

\* setMotorStatus, lines 85, 103 and 144: the row a call of getMotorStatus
\* or of updateMotorStatus resolved to is stored, and after the render the
\* auto motor effect runs.
DashMotorDone ==
    \E i \in 1..Len(dReqs) :
        /\ dReqs[i].kind \in {"motor", "update"}
        /\ dMotor' = dReqs[i].value
        /\ dReqs' = RemoveAt(dReqs, i) \o DashAutoEffect(dSensor, dMotor')
        /\ UNCHANGED <<sensor, log, windowed, evals, last, dSensor, faults>>
        /\ UNCHANGED <<panelVars, cropVars, auxVars>>

-----------------------------------------------------------------------------
(* GET /api/crop-recommendations: src/unnamed/part_002                       *)

\* The ratio n/d.
Rat(n, d) == [n |-> n, d |-> d]

\* Math.round of a double: floor(x + 0.5), NaN for NaN.
MathRound(x) ==
    IF x.nan THEN NaN
    ELSE IF x.neg
    THEN -BigToInt(BigShr(BigSub(BigAdd(x.mag, BigShl(<<1>>, 89)), <<1>>), 90))
    ELSE BigToInt(BigShr(BigAdd(x.mag, BigShl(<<1>>, 89)), 90))

\* Mutant: the tomato soil moisture range is typed with min = max.
CropProfiles_Degenerate ==
    << [crop_type |-> "Tomatoes",
        optimal |-> [soil_moisture |-> <<50, 50>>, soil_temperature |-> <<18, 24>>,
                     air_temperature |-> <<20, 30>>, air_humidity |-> <<50, 70>>]],
       [crop_type |-> "Lettuce",
        optimal |-> [soil_moisture |-> <<50, 80>>, soil_temperature |-> <<10, 18>>,
                     air_temperature |-> <<15, 25>>, air_humidity |-> <<60, 80>>]],
       [crop_type |-> "Peppers",
        optimal |-> [soil_moisture |-> <<35, 65>>, soil_temperature |-> <<20, 28>>,
                     air_temperature |-> <<22, 32>>, air_humidity |-> <<40, 60>>]],
       [crop_type |-> "Spinach",
        optimal |-> [soil_moisture |-> <<60, 85>>, soil_temperature |-> <<8, 16>>,
                     air_temperature |-> <<10, 20>>, air_humidity |-> <<65, 85>>]],
       [crop_type |-> "Carrots",
        optimal |-> [soil_moisture |-> <<45, 75>>, soil_temperature |-> <<12, 20>>,
                     air_temperature |-> <<16, 24>>, air_humidity |-> <<50, 70>>]] >>

\* The optimal ranges generateCropRecommendations passes for each crop, in
\* the order it pushes the crops.
CropProfiles ==
    << [crop_type |-> "Tomatoes",
        optimal |-> [soil_moisture |-> <<40, 70>>, soil_temperature |-> <<18, 24>>,
                     air_temperature |-> <<20, 30>>, air_humidity |-> <<50, 70>>]],
       [crop_type |-> "Lettuce",
        optimal |-> [soil_moisture |-> <<50, 80>>, soil_temperature |-> <<10, 18>>,
                     air_temperature |-> <<15, 25>>, air_humidity |-> <<60, 80>>]],
       [crop_type |-> "Peppers",
        optimal |-> [soil_moisture |-> <<35, 65>>, soil_temperature |-> <<20, 28>>,
                     air_temperature |-> <<22, 32>>, air_humidity |-> <<40, 60>>]],
       [crop_type |-> "Spinach",
        optimal |-> [soil_moisture |-> <<60, 85>>, soil_temperature |-> <<8, 16>>,
                     air_temperature |-> <<10, 20>>, air_humidity |-> <<65, 85>>]],
       [crop_type |-> "Carrots",
        optimal |-> [soil_moisture |-> <<45, 75>>, soil_temperature |-> <<12, 20>>,
                     air_temperature |-> <<16, 24>>, air_humidity |-> <<50, 70>>]] >>

\* The four parameters calculateCropSuitability scores, in its order.
ScoredParameters ==
    <<"soil_moisture", "soil_temperature", "air_temperature", "air_humidity">>

\* Mutant: outside the range the penalty is 4 points per unit.
calculateParameterScore_Penalty4(value, optimal) ==
    LET v == DoubleOf(value)
        range == optimal[2] - optimal[1]
    IN  IF value >= U(optimal[1]) /\ value <= U(optimal[2])
        THEN LET distanceFromCenter ==
                     [DoubleSub(v, DoubleOf(500 * (optimal[1] + optimal[2]))) EXCEPT !.neg = FALSE]
             IN  DoubleSub(DoubleOf(U(100)),
                           DoubleTimes(DoubleOverHalf(distanceFromCenter, range), 20))
        ELSE LET distance == IF value < U(optimal[1]) THEN DoubleSub(DoubleOf(U(optimal[1])), v)
                             ELSE DoubleSub(v, DoubleOf(U(optimal[2])))
                 penalty == DoubleMin(DoubleTimes(distance, 4), DoubleOf(U(80)))
             IN  DoubleMax(DoubleOf(U(20)), DoubleSub(DoubleOf(U(100)), penalty))

\* Mutant: inside the range the penalty grows to 40 points at the edges.
calculateParameterScore_Edge60(value, optimal) ==
    LET v == DoubleOf(value)
        range == optimal[2] - optimal[1]
    IN  IF value >= U(optimal[1]) /\ value <= U(optimal[2])
        THEN LET distanceFromCenter ==
                     [DoubleSub(v, DoubleOf(500 * (optimal[1] + optimal[2]))) EXCEPT !.neg = FALSE]
             IN  DoubleSub(DoubleOf(U(100)),
                           DoubleTimes(DoubleOverHalf(distanceFromCenter, range), 40))
        ELSE LET distance == IF value < U(optimal[1]) THEN DoubleSub(DoubleOf(U(optimal[1])), v)
                             ELSE DoubleSub(v, DoubleOf(U(optimal[2])))
                 penalty == DoubleMin(DoubleTimes(distance, 5), DoubleOf(U(80)))
             IN  DoubleMax(DoubleOf(U(20)), DoubleSub(DoubleOf(U(100)), penalty))

\* Mutant: inside the range the distance is taken from min, not from the
\* midpoint.
calculateParameterScore_FromMin(value, optimal) ==
    LET v == DoubleOf(value)
        range == optimal[2] - optimal[1]
    IN  IF value >= U(optimal[1]) /\ value <= U(optimal[2])
        THEN LET distanceFromCenter ==
                     [DoubleSub(v, DoubleOf(U(optimal[1]))) EXCEPT !.neg = FALSE]
             IN  DoubleSub(DoubleOf(U(100)),
                           DoubleTimes(DoubleOverHalf(distanceFromCenter, range), 20))
        ELSE LET distance == IF value < U(optimal[1]) THEN DoubleSub(DoubleOf(U(optimal[1])), v)
                             ELSE DoubleSub(v, DoubleOf(U(optimal[2])))
                 penalty == DoubleMin(DoubleTimes(distance, 5), DoubleOf(U(80)))
             IN  DoubleMax(DoubleOf(U(20)), DoubleSub(DoubleOf(U(100)), penalty))

\* calculateParameterScore, in the doubles of the program. value is the
\* decimal number of the sensor row in thousandths, optimal = <<min, max>> in
\* whole units; v is the double the value is parsed to, and the comparisons
\* of v with min and max are those of the decimal numbers.
\* Inside the range: 100 - (|v - mid| / (range / 2)) * 20, with
\* mid = (min + max) / 2 and range = max - min; a range of 0 divides 0 by 0.
\* Outside: max(20, 100 - min(distance * 5, 80)).
calculateParameterScore(value, optimal) ==
    LET v == DoubleOf(value)
        range == optimal[2] - optimal[1]
    IN  IF value >= U(optimal[1]) /\ value <= U(optimal[2])
        THEN LET distanceFromCenter ==
                     [DoubleSub(v, DoubleOf(500 * (optimal[1] + optimal[2]))) EXCEPT !.neg = FALSE]
             IN  DoubleSub(DoubleOf(U(100)),
                           DoubleTimes(DoubleOverHalf(distanceFromCenter, range), 20))
        ELSE LET distance == IF value < U(optimal[1]) THEN DoubleSub(DoubleOf(U(optimal[1])), v)
                             ELSE DoubleSub(v, DoubleOf(U(optimal[2])))
                 penalty == DoubleMin(DoubleTimes(distance, 5), DoubleOf(U(80)))
             IN  DoubleMax(DoubleOf(U(20)), DoubleSub(DoubleOf(U(100)), penalty))

\* scores.reduce((sum, score) => sum + score, sum)
RECURSIVE Reduce(_, _)
Reduce(scores, sum) ==
    IF scores = <<>> THEN sum ELSE Reduce(Tail(scores), DoubleAdd(sum, Head(scores)))

\* sum / scores.length, line 259.
Mean(scores) == DoubleOverHalf(Reduce(scores, DoubleOf(0)), 2 * Len(scores))

\* Mutant: the soil temperature is left out of the mean.
calculateCropSuitability_ThreeScores(params) ==
    LET scores == <<calculateParameterScore(params.soil_moisture, params.optimal.soil_moisture),
                    calculateParameterScore(params.air_temperature, params.optimal.air_temperature),
                    calculateParameterScore(params.air_humidity, params.optimal.air_humidity)>>
    IN  MathRound(Mean(scores))

\* Mutant: the mean is not clamped from above by its sub-scores (10 points
\* are added to it).
calculateCropSuitability_Bonus(params) ==
    LET scores == <<calculateParameterScore(params.soil_moisture, params.optimal.soil_moisture),
                    calculateParameterScore(params.soil_temperature, params.optimal.soil_temperature),
                    calculateParameterScore(params.air_temperature, params.optimal.air_temperature),
                    calculateParameterScore(params.air_humidity, params.optimal.air_humidity)>>
    IN  MathRound(Mean(scores)) + 10

\* calculateCropSuitability: Math.round(sum / scores.length)
calculateCropSuitability(params) ==
    LET scores == <<calculateParameterScore(params.soil_moisture, params.optimal.soil_moisture),
                    calculateParameterScore(params.soil_temperature, params.optimal.soil_temperature),
                    calculateParameterScore(params.air_temperature, params.optimal.air_temperature),
                    calculateParameterScore(params.air_humidity, params.optimal.air_humidity)>>
    IN  MathRound(Mean(scores))

\* The advice texts: the opening sentence, then the two interpolated parts
\* (the empty string where the template inserts nothing).
getTomatoRecommendation(sensorData, score) ==
    LET soil_moisture == sensorData.soil_moisture.v
        air_temperature == sensorData.air_temperature.v
    IN  IF score >= 80 THEN <<"Excellent conditions for tomatoes!">>
        ELSE IF score >= 60
        THEN <<"Good conditions for tomatoes.",
               IF soil_moisture < U(40) THEN "Consider increasing irrigation frequency."
               ELSE IF soil_moisture > U(70) THEN "Reduce watering to prevent root rot."
               ELSE "",
               IF air_temperature > U(30) THEN "Provide shade during hottest parts of the day."
               ELSE "">>
        ELSE <<"Challenging conditions for tomatoes.",
               IF air_temperature < U(20) THEN "Temperature is too cool"
               ELSE IF air_temperature > U(35) THEN "Temperature is too hot"
               ELSE "",
               "Monitor soil moisture closely.">>

getLettuceRecommendation(sensorData, score) ==
    LET soil_moisture == sensorData.soil_moisture.v
        air_temperature == sensorData.air_temperature.v
    IN  IF score >= 80 THEN <<"Perfect conditions for lettuce!">>
        ELSE IF score >= 60
        THEN <<"Good conditions for lettuce.",
               IF air_temperature > U(25) THEN "Provide afternoon shade to prevent bolting."
               ELSE "",
               IF soil_moisture < U(50) THEN "Increase watering frequency for best leaf quality."
               ELSE "">>
        ELSE <<"Difficult conditions for lettuce.",
               IF air_temperature > U(30) THEN "Too hot - lettuce will bolt quickly."
               ELSE "",
               "Ensure consistent soil moisture.">>

getPepperRecommendation(sensorData, score) ==
    LET soil_moisture == sensorData.soil_moisture.v
        air_temperature == sensorData.air_temperature.v
    IN  IF score >= 80 THEN <<"Excellent conditions for peppers!">>
        ELSE IF score >= 60
        THEN <<"Good conditions for peppers.",
               IF air_temperature < U(22) THEN "Consider using row covers or greenhouse protection."
               ELSE "",
               IF soil_moisture > U(65) THEN "Allow soil to dry slightly between waterings."
               ELSE "">>
        ELSE <<"Challenging conditions for peppers.",
               IF air_temperature < U(18) THEN "Too cool for peppers"
               ELSE "",
               "Adjust watering based on soil moisture levels.">>

getSpinachRecommendation(sensorData, score) ==
    LET soil_moisture == sensorData.soil_moisture.v
        air_temperature == sensorData.air_temperature.v
    IN  IF score >= 80 THEN <<"Ideal conditions for spinach!">>
        ELSE IF score >= 60
        THEN <<"Good conditions for spinach.",
               IF air_temperature > U(20) THEN "Provide shade to prevent early bolting."
               ELSE "",
               IF soil_moisture < U(60) THEN "Increase watering for optimal leaf development."
               ELSE "">>
        ELSE <<"Poor conditions for spinach.",
               IF air_temperature > U(25) THEN "Too warm - spinach will bolt quickly."
               ELSE "",
               "Maintain consistent soil moisture.">>

getCarrotRecommendation(sensorData, score) ==
    LET soil_moisture == sensorData.soil_moisture.v
        air_temperature == sensorData.air_temperature.v
    IN  IF score >= 80 THEN <<"Great conditions for carrots!">>
        ELSE IF score >= 60
        THEN <<"Good conditions for carrots.",
               IF soil_moisture > U(75) THEN "Reduce watering to prevent root rot and splitting."
               ELSE "",
               IF air_temperature > U(24) THEN "Provide mulch to keep soil cool."
               ELSE "">>
        ELSE <<"Challenging conditions for carrots.",
               IF air_temperature > U(28) THEN "Too warm - roots may become bitter and tough."
               ELSE "",
               "Ensure consistent but not excessive soil moisture.">>

\* The text function generateCropRecommendations calls for each crop.
RecommendationText(crop_type, sensorData, score) ==
    CASE crop_type = "Tomatoes" -> getTomatoRecommendation(sensorData, score)
      [] crop_type = "Lettuce" -> getLettuceRecommendation(sensorData, score)
      [] crop_type = "Peppers" -> getPepperRecommendation(sensorData, score)
      [] crop_type = "Spinach" -> getSpinachRecommendation(sensorData, score)
      [] crop_type = "Carrots" -> getCarrotRecommendation(sensorData, score)

\* The score of one crop for a sensor row.
CropScore(sensorData, profile) ==
    calculateCropSuitability(
        [soil_moisture |-> sensorData.soil_moisture.v,
         soil_temperature |-> sensorData.soil_temperature.v,
         air_temperature |-> sensorData.air_temperature.v,
         air_humidity |-> sensorData.air_humidity.v,
         optimal |-> profile.optimal])

\* recommendations.sort((a, b) => b.suitability_score - a.suitability_score):
\* Array.prototype.sort is stable. rec is put behind every entry of the
\* sorted list whose score is not lower.
\* Mutant: rec is put in front of the entries with an equal score.
RECURSIVE InsertByScore_BeforeEqual(_, _)
InsertByScore_BeforeEqual(sorted, rec) ==
    IF sorted = <<>> THEN <<rec>>
    ELSE IF Head(sorted).suitability_score > rec.suitability_score
    THEN <<Head(sorted)>> \o InsertByScore_BeforeEqual(Tail(sorted), rec)
    ELSE <<rec>> \o sorted

RECURSIVE InsertByScore(_, _)
InsertByScore(sorted, rec) ==
    IF sorted = <<>> THEN <<rec>>
    ELSE IF Head(sorted).suitability_score >= rec.suitability_score
    THEN <<Head(sorted)>> \o InsertByScore(Tail(sorted), rec)
    ELSE <<rec>> \o sorted

RECURSIVE SortByScore(_)
SortByScore(recs) ==
    IF recs = <<>> THEN <<>>
    ELSE InsertByScore(SortByScore(SubSeq(recs, 1, Len(recs) - 1)), recs[Len(recs)])

\* The entry pushed for a crop: its score and the advice for that score.
Recommendation(crop_type, sensorData, score) ==
    [crop_type |-> crop_type,
     suitability_score |-> score,
     recommendation_text |-> RecommendationText(crop_type, sensorData, score)]

generateCropRecommendations(sensorData) ==
    LET pushed == [i \in 1..Len(CropProfiles) |->
                     Recommendation(CropProfiles[i].crop_type, sensorData,
                                    CropScore(sensorData, CropProfiles[i]))]
    IN  SortByScore(pushed)

\* The rows the handler stores for one answer.
CropRows(recommendations) ==
    [i \in 1..Len(recommendations) |->
        [crop_type |-> recommendations[i].crop_type,
         recommendation_text |-> recommendations[i].recommendation_text,
         confidence_score |-> Rat(recommendations[i].suitability_score, 100)]]

\* What the handler answers with the rows it generated.
CropAnswer(sensorData, recommendations) ==
    [status |-> 200, recommendations |-> recommendations,
     sensor_data |-> [f \in DOMAIN sensorData \ {"soil_humidity"} |-> sensorData[f]]]

\* GET, lines 18-34: a call arrives and the latest sensor row is read.
\* .single() gives an error when the read fails or the table is empty, and
\* the answer is 500; when createClient or the query throws, the outer catch
\* answers 500. Otherwise the recommendations are generated and the insert
\* is still to come.
CropGET(outcome) ==
    /\ Storage(outcome = "ok")
    /\ IF outcome = "throws"
       THEN /\ cropResponse' = [status |-> 500, error |-> "Internal server error"]
            /\ cropReqs' = cropReqs
       ELSE IF outcome = "sensorError" \/ sensor = NoRow
       THEN /\ cropResponse' = [status |-> 500, error |-> "Failed to fetch sensor data"]
            /\ cropReqs' = cropReqs
       ELSE /\ Len(cropReqs) < MaxCropCalls
            /\ cropReqs' = Append(cropReqs,
                                  [stage |-> "generated", sensorData |-> sensor,
                                   recommendations |-> generateCropRecommendations(sensor)])
            /\ cropResponse' = cropResponse
    /\ UNCHANGED <<sensor, log, windowed, evals, last, dSensor, dMotor, dReqs, pMotor,
                   isUpdating, pReqs, pTimers, cropTable>>
    /\ UNCHANGED auxVars

\* GET, lines 37-52: the rows are inserted into crop_recommendations. An
\* error of the insert is only logged and an insert that throws is caught,
\* so the handler goes on either way.
CropInsert(outcome) ==
    \E i \in 1..Len(cropReqs) :
        /\ Storage(outcome = "ok")
        /\ cropReqs[i].stage = "generated"
        /\ IF outcome = "ok"
           THEN /\ Len(cropTable) < MaxCropBatches
                /\ cropTable' = Append(cropTable, CropRows(cropReqs[i].recommendations))
           ELSE cropTable' = cropTable
        /\ cropReqs' = [cropReqs EXCEPT ![i].stage = "stored"]
        /\ UNCHANGED <<sensor, log, windowed, evals, last, dSensor, dMotor, dReqs, pMotor,
                       isUpdating, pReqs, pTimers, cropResponse>>
        /\ UNCHANGED auxVars

\* GET, lines 54-67: the answer with the recommendations and the sensor row
\* they were generated from.
CropRespond ==
    \E i \in 1..Len(cropReqs) :
        /\ cropReqs[i].stage = "stored"
        /\ cropResponse' = CropAnswer(cropReqs[i].sensorData, cropReqs[i].recommendations)
        /\ cropReqs' = RemoveAt(cropReqs, i)
        /\ UNCHANGED <<sensor, log, windowed, evals, last, dSensor, dMotor, dReqs, pMotor,
                       isUpdating, pReqs, pTimers, faults, cropTable>>
        /\ UNCHANGED auxVars

-----------------------------------------------------------------------------
(* Sensor rows *)

\* The readings the interleaved specification draws from: dry; dry in the
\* rain; moderate, hot and dry.
Readings ==
    { Reading(Num(U(15)), Num(U(22)), Num(U(60)), Num(U(0))),
      Reading(Num(U(15)), Num(U(22)), Num(U(60)), Num(U(2))),
      Reading(Num(U(35)), Num(U(32)), Num(U(45)), Num(U(0))) }

\* A new row of sensor_readings arrives.
NewReading ==
    /\ sensor' \in Readings \ {sensor}
    /\ UNCHANGED <<log, windowed, evals, last, dSensor, dMotor, dReqs, pMotor,
                   isUpdating, pReqs, pTimers, faults>>
    /\ UNCHANGED <<cropVars, auxVars>>

\* Field values on and next to every threshold of the policy (a hundredth
\* away, and where toFixed(1) rounds the value onto the threshold). Every
\* column of sensor_readings the policy reads is NOT NULL, so a row holds a
\* number in each.
SoilMoistureValues ==
    {Num(n) : n \in {U(15), U(20) - 40, U(20), U(30) - 40, U(30), U(35), U(40) - 10, U(40),
                     U(50), U(60), U(60) + 10, U(70), U(70) + 50}}
AirTemperatureValues == {Num(n) : n \in {U(0) - 500, U(22), U(30), U(30) + 10}}
AirHumidityValues == {Num(n) : n \in {U(50) - 10, U(50)}}
RainfallValues == {Num(n) : n \in {U(0), U(1), U(1) + 40, U(2)}}

\* The rows the endpoint is checked on: every combination of the values
\* above.
GridReadings ==
    {Reading(sm, at, ah, rf) : sm \in SoilMoistureValues, at \in AirTemperatureValues,
                               ah \in AirHumidityValues, rf \in RainfallValues}

\* Logs that end in each status and mode: the seeded row, then a manual
\* toggle, then either a second toggle or a switch to automatic.
StartLogs ==
    { <<InitialRow>>,
      <<InitialRow, ToggleBody(InitialRow)>>,
      <<InitialRow, ToggleBody(InitialRow), ToggleBody(ToggleBody(InitialRow))>>,
      <<InitialRow, ToggleBody(InitialRow), SwitchBody(ToggleBody(InitialRow))>> }

-----------------------------------------------------------------------------
(* Specifications *)

InitPanels ==
    /\ evals = <<>> /\ last = NoRun
    /\ dSensor = NoRow /\ dMotor = NoRow /\ dReqs = <<>>
    /\ pMotor = NoRow /\ isUpdating = FALSE /\ pReqs = <<>> /\ pTimers = 0
    /\ cropTable = <<>> /\ cropResponse = NoRow /\ cropReqs = <<>>

\* No call of the scorer, no POST /api/motor, the SMS panel and the chatbot
\* not mounted.
NoScoreCall == scoreCall = NoRow /\ scoreReturn = NoRow
NoMotorPost == motorPost = NoRow /\ postReqs = <<>>
NoSmsPanel ==
    /\ smsSettings = NoRow /\ smsCustom = "" /\ smsLastAlert = FALSE /\ smsStatus = NoRow
    /\ smsHistory = <<>> /\ smsSaved = <<>> /\ smsReported = <<>>
    /\ smsReqs = <<>> /\ smsTimer = NoRow /\ smsLoading = FALSE
NoChatbot == chatMessages = <<>> /\ chatLoading = FALSE /\ chatReqs = <<>>

InitClients == InitPanels /\ NoScoreCall /\ NoMotorPost /\ NoSmsPanel /\ NoChatbot

\* The motor control panel with its user and the endpoints it calls, on one
\* reading, from the table the schema script leaves; storage works.
Init ==
    /\ sensor \in Readings
    /\ log = <<InitialRow>>
    /\ windowed = FALSE
    /\ faults = 0
    /\ InitClients

Next ==
    \/ PanelFetch("ok")
    \/ PanelRefresh("ok")
    \/ PanelFetchDone
    \/ PanelToggle
    \/ PanelSwitch
    \/ PanelPost(TRUE)
    \/ PanelToggleDone
    \/ PanelSwitchAuto
    \/ PanelAutoControl
    \/ RouteReadSensor(TRUE)
    \/ RouteReadMotor(TRUE)
    \/ RouteInsert(TRUE)
    \/ RouteRespond

Spec == Init /\ [][Next]_vars

\* The users of the two pages and every writer of the log but the
\* auto-control endpoint: the panel's toggle and the dashboard's toggle and
\* auto motor effect, on one reading; storage works.
NextUsers ==
    \/ PanelFetch("ok")
    \/ PanelFetchDone
    \/ PanelToggle
    \/ PanelPost(TRUE)
    \/ PanelToggleDone
    \/ DashFetchSensor(TRUE)
    \/ DashSensorDone
    \/ DashFetchMotor(TRUE)
    \/ DashToggle
    \/ updateMotorStatus(TRUE)
    \/ DashMotorDone

SpecUsers == Init /\ [][NextUsers]_vars

\* The motor control panel alone with its user; storage calls may fail.
InitPanel ==
    /\ sensor \in Readings
    /\ log = <<InitialRow>>
    /\ windowed = FALSE
    /\ faults = MaxFaults
    /\ InitClients

NextPanel ==
    \/ \E outcome \in GetOutcomes : PanelFetch(outcome)
    \/ PanelFetchDone
    \/ PanelToggle
    \/ \E ok \in BOOLEAN : PanelPost(ok)
    \/ PanelToggleDone

SpecPanel == InitPanel /\ [][NextPanel]_vars

\* The dashboard alone with its user, while new sensor rows arrive; storage
\* calls may fail, and a failed read of the sensor table shows a demo
\* reading.
InitDash ==
    /\ sensor \in Readings
    /\ log = <<InitialRow>>
    /\ windowed = FALSE
    /\ faults = MaxFaults
    /\ InitClients

NextDash ==
    \/ NewReading
    \/ \E ok \in BOOLEAN : DashFetchSensor(ok)
    \/ DashSensorDone
    \/ \E ok \in BOOLEAN : DashFetchMotor(ok)
    \/ DashToggle
    \/ \E ok \in BOOLEAN : updateMotorStatus(ok)
    \/ DashMotorDone

SpecDash == InitDash /\ [][NextDash]_vars

\* The auto-control endpoint alone, called again and again on one reading;
\* storage calls may fail.
InitSeq ==
    /\ sensor \in GridReadings
    /\ log \in StartLogs
    /\ windowed = TRUE
    /\ faults = MaxFaults
    /\ InitClients

NextSeq ==
    \/ RouteDirect
    \/ \E ok \in BOOLEAN : RouteReadSensor(ok)
    \/ \E ok \in BOOLEAN : RouteReadMotor(ok)
    \/ \E ok \in BOOLEAN : RouteInsert(ok)
    \/ RouteRespond

SpecSeq == InitSeq /\ [][NextSeq]_vars

\* The automatic controllers alone, polling for ever on one reading: a
\* client that calls the auto-control endpoint again and again, the
\* dashboard's 30 s refresh and its auto motor effect; storage works and no
\* user acts.
PollReadings ==
    Readings \cup { Reading(Num(U(50)), Num(U(22)), Num(U(60)), Num(U(0))),
                    Reading(Num(U(65)), Num(U(22)), Num(U(60)), Num(U(0))) }

InitPoll ==
    /\ sensor \in PollReadings
    /\ log = <<InitialRow>>
    /\ windowed = TRUE
    /\ faults = 0
    /\ InitClients

NextPoll ==
    \/ RouteDirect
    \/ RouteReadSensor(TRUE)
    \/ RouteReadMotor(TRUE)
    \/ RouteInsert(TRUE)
    \/ RouteRespond
    \/ DashFetchSensor(TRUE)
    \/ DashSensorDone
    \/ DashFetchMotor(TRUE)
    \/ updateMotorStatus(TRUE)
    \/ DashMotorDone

SpecPoll ==
    /\ InitPoll /\ [][NextPoll]_vars
    /\ WF_vars(RouteDirect)
    /\ WF_vars(RouteReadSensor(TRUE)) /\ WF_vars(RouteReadMotor(TRUE))
    /\ WF_vars(RouteInsert(TRUE)) /\ WF_vars(RouteRespond)
    /\ WF_vars(DashFetchSensor(TRUE)) /\ WF_vars(DashSensorDone)
    /\ WF_vars(DashFetchMotor(TRUE))
    /\ WF_vars(updateMotorStatus(TRUE)) /\ WF_vars(DashMotorDone)

\* A fresh installation whose motor_control table holds no row yet (the
\* table is created empty when the seeding INSERT of the script is not run):
\* the dashboard alone with its user mounts and goes on refreshing while the
\* soil is dry; storage calls may fail, and a failed read of the sensor table
\* shows a demo reading.
InitBoot ==
    /\ sensor = Reading(Num(U(15)), Num(U(22)), Num(U(60)), Num(U(0)))
    /\ log = <<>>
    /\ windowed = FALSE
    /\ faults = MaxFaults
    /\ InitClients

NextBoot ==
    \/ \E ok \in BOOLEAN : DashFetchSensor(ok)
    \/ DashSensorDone
    \/ \E ok \in BOOLEAN : DashFetchMotor(ok)
    \/ \E ok \in BOOLEAN : DashSeed(ok)
    \/ DashToggle
    \/ \E ok \in BOOLEAN : updateMotorStatus(ok)
    \/ DashMotorDone

SpecBoot == InitBoot /\ [][NextBoot]_vars

\* The auto-control endpoint on a fresh installation whose sensor_readings
\* table holds no row yet (the script creates it empty), until and after
\* the first rows arrive; storage calls may fail.
InitFresh ==
    /\ sensor = NoRow
    /\ log \in StartLogs
    /\ windowed = TRUE
    /\ faults = MaxFaults
    /\ InitClients

NextFresh ==
    \/ NewReading
    \/ RouteDirect
    \/ \E ok \in BOOLEAN : RouteReadSensor(ok)
    \/ \E ok \in BOOLEAN : RouteReadMotor(ok)
    \/ \E ok \in BOOLEAN : RouteInsert(ok)
    \/ RouteRespond

SpecFresh == InitFresh /\ [][NextFresh]_vars

\* A sensor row with the fields the crop advice reads and the ones it does
\* not read.
CropReading(sm, st, at, ah, other) ==
    [soil_moisture |-> Num(sm), soil_temperature |-> Num(st), air_temperature |-> Num(at),
     air_humidity |-> Num(ah), soil_humidity |-> Num(other[1]), pressure |-> Num(other[2]),
     rainfall |-> Num(other[3]), ammonia |-> Num(other[4])]

\* Values on and around the ends and the midpoints of the ranges, among
\* them values with one decimal, which no double holds exactly.
CropSoilMoisture == {U(20), U(40), U(55), U(70), U(72) + 500, U(85), U(39) + 900, U(100)}
CropSoilTemperature == {U(0), U(8), U(12), U(18), U(21), U(24), U(28), U(45)}
CropAirTemperature == {U(10), U(15), U(20), U(25), U(30), U(32), U(40) + 100, U(50)}
CropAirHumidity == {U(40), U(50), U(60), U(65), U(70), U(80), U(85), U(100)}

\* soil_humidity, pressure, rainfall, ammonia.
OtherFields == { <<U(95), U(980), U(12), U(40)>> }

\* Values far below, inside and above the ranges, taken together in every
\* combination.
CoreSoilMoisture == {U(0), U(47) + 500, U(78) + 900}
CoreSoilTemperature == {-U(10), U(10) + 700, U(17) + 500}
CoreAirTemperature == {U(2) + 600, U(21) + 500, U(33)}
CoreAirHumidity == {U(0), U(59) + 500, U(75)}

\* The other three parameters while one parameter sweeps its values: the
\* midpoints of the tomato ranges.
BaseReadings == { <<U(55), U(21), U(25), U(60)>> }

\* Rows on which the sum of the sub-scores is not the sum of the decimal
\* numbers.
RoundedReadings ==
    { <<U(30) + 900, U(38) + 700, U(10) + 500, U(80) + 400>>,
      <<U(17) + 400, U(5) + 500, U(19) + 600, U(71) + 900>>,
      <<U(49) + 800, U(28) + 600, U(25) + 600, U(11) + 500>> }

CropReadings ==
    {CropReading(sm, st, at, ah, <<U(50), U(1013), U(0), U(5)>>) :
        sm \in CoreSoilMoisture, st \in CoreSoilTemperature, at \in CoreAirTemperature,
        ah \in CoreAirHumidity}
    \cup {CropReading(b[1], b[2], b[3], b[4], <<U(50), U(1013), U(0), U(5)>>) :
             b \in RoundedReadings}
    \cup {CropReading(sm, b[2], b[3], b[4], other) :
             sm \in CropSoilMoisture, b \in BaseReadings, other \in OtherFields}
    \cup {CropReading(b[1], st, b[3], b[4], other) :
             st \in CropSoilTemperature, b \in BaseReadings, other \in OtherFields}
    \cup {CropReading(b[1], b[2], at, b[4], other) :
             at \in CropAirTemperature, b \in BaseReadings, other \in OtherFields}
    \cup {CropReading(b[1], b[2], b[3], ah, other) :
             ah \in CropAirHumidity, b \in BaseReadings, other \in OtherFields}

\* The crop advice endpoint called again and again on one sensor row;
\* storage calls may fail.
InitCrop ==
    /\ sensor \in CropReadings
    /\ log = <<InitialRow>>
    /\ windowed = FALSE
    /\ faults = MaxFaults
    /\ InitClients

NextCrop ==
    \/ \E outcome \in {"ok", "sensorError", "throws"} : CropGET(outcome)
    \/ \E outcome \in {"ok", "insertError", "throws"} : CropInsert(outcome)
    \/ CropRespond

SpecCrop == InitCrop /\ [][NextCrop]_vars

-----------------------------------------------------------------------------
(* POST /api/motor called with any body: app/api/motor/route.ts             *)

\* JSON booleans and strings (numbers, null and absent fields as above).
Bool(b) == [k |-> "boolean", v |-> b]
Str(s) == [k |-> "string", v |-> s]

\* A JSON object with the four fields the handler destructures.
PostBody(status, mode, reason, changed_by) ==
    [k |-> "object", status |-> status, mode |-> mode, reason |-> reason,
     changed_by |-> changed_by]

\* A body that is not JSON at all.
Malformed == [k |-> "malformed", v |-> 0]

\* A JSON array.
Array == [k |-> "array", v |-> 0]

\* The bodies the endpoint is called with: a valid one, the same with each
\* field in turn changed or absent, JSON values that are not objects (null
\* among them) and a body that does not parse.
PostBase == PostBody(Bool(TRUE), Str("manual"), Str("Pump test"), Str("user"))
PostBodies ==
    {PostBase, Null, Malformed, Num(5), Str("x"), Bool(TRUE), Array}
    \cup {[PostBase EXCEPT !.status = x] :
             x \in {Bool(FALSE), Str("true"), Num(1), Null, Undefined}}
    \cup {[PostBase EXCEPT !.mode = x] : x \in {Str("automatic"), Str("auto"), Undefined}}
    \cup {[PostBase EXCEPT !.reason = x] :
             x \in {Str(""), Null, Undefined, Num(0), Num(7), Bool(FALSE), Bool(TRUE)}}
    \cup {[PostBase EXCEPT !.changed_by = x] : x \in {Str("system"), Str("admin"), Undefined}}

\* Line 54: const { status, mode, reason, changed_by } = body. A number, a
\* string, a boolean and an array have none of the four properties.
PostFields(body) ==
    IF body.k = "object" THEN body
    ELSE PostBody(Undefined, Undefined, Undefined, Undefined)

\* Mutant: changed_by is not validated.
PostValidation_AnyChangedBy(body) ==
    LET fields == PostFields(body)
    IN  IF fields.status.k # "boolean" THEN "Status must be boolean"
        ELSE IF ~(fields.mode.k = "string" /\ fields.mode.v \in {"automatic", "manual"})
        THEN "Mode must be 'automatic' or 'manual'"
        ELSE "valid"

\* Lines 56-67: the error of the first check that fails, or "valid".
PostValidation(body) ==
    LET fields == PostFields(body)
    IN  IF fields.status.k # "boolean" THEN "Status must be boolean"
        ELSE IF ~(fields.mode.k = "string" /\ fields.mode.v \in {"automatic", "manual"})
        THEN "Mode must be 'automatic' or 'manual'"
        ELSE IF ~(fields.changed_by.k = "string" /\ fields.changed_by.v \in {"system", "user"})
        THEN "Changed_by must be 'system' or 'user'"
        ELSE "valid"

\* Whether a JSON value is truthy: not null, undefined, false, 0 or "".
Truthy(x) ==
    CASE x.k \in {"null", "undefined"} -> FALSE
      [] x.k = "boolean" -> x.v
      [] x.k = "num" -> x.v # 0
      [] x.k = "string" -> x.v # ""
      [] OTHER -> TRUE

\* Line 78: reason || `Motor ${...} via ${mode} mode`. Every truthy reason
\* is kept, whatever its type: a reason that is not a string is written
\* here as its type and its text.
PostReason(body) ==
    IF Truthy(body.reason)
    THEN CASE body.reason.k = "string" -> <<body.reason.v>>
           [] body.reason.k = "num" -> <<"number", ToString(body.reason.v)>>
           [] body.reason.k = "boolean" ->
                  <<"boolean", IF body.reason.v THEN "true" ELSE "false">>
    ELSE <<"Motor", IF body.status.v THEN "activated" ELSE "deactivated", "via",
           body.mode.v, "mode">>

\* The row the handler inserts for a valid body.
PostRow(body) == MotorRow(body.status.v, body.mode.v, PostReason(body), body.changed_by.v)

\* What the handler has answered to a body.
PostAnswer(body, response) == [body |-> body, response |-> response]

\* POST, lines 53-69: a call arrives. request.json() rejects a body that
\* does not parse and destructuring null throws, both caught as 500 (lines
\* 98-101), and so is createClient when it throws; a field that fails
\* validation gives 400. For a valid body the insert is still to come.
POST(body, ok) ==
    /\ Storage(ok)
    /\ IF body.k \in {"malformed", "null"}
       THEN /\ ok
            /\ motorPost' = PostAnswer(body, [status |-> 500, error |-> "Internal server error"])
            /\ postReqs' = postReqs
       ELSE IF PostValidation(body) # "valid"
       THEN /\ ok
            /\ motorPost' = PostAnswer(body, [status |-> 400, error |-> PostValidation(body)])
            /\ postReqs' = postReqs
       ELSE IF ~ok
       THEN /\ motorPost' = PostAnswer(body, [status |-> 500, error |-> "Internal server error"])
            /\ postReqs' = postReqs
       ELSE /\ Len(postReqs) < MaxPostCalls
            /\ postReqs' = Append(postReqs, [stage |-> "validated", body |-> body])
            /\ motorPost' = motorPost
    /\ UNCHANGED <<sensor, log, windowed, evals, last, dSensor, dMotor, dReqs, pMotor,
                   isUpdating, pReqs, pTimers>>
    /\ UNCHANGED <<cropVars, scoreVars, smsVars, chatVars>>

\* POST, lines 72-88: the insert of a call reaches the table; it gives an
\* error, answered 500 'Failed to update motor status', or throws, answered
\* 500 by the catch. After the insert the handler awaits
\* simulateMotorCommand (line 91, 500 ms).
PostInsert(outcome) ==
    \E i \in 1..Len(postReqs) :
        /\ Storage(outcome = "ok")
        /\ postReqs[i].stage = "validated"
        /\ IF outcome = "ok"
           THEN /\ CanInsert
                /\ log' = InsertRow(log, PostRow(postReqs[i].body))
                /\ postReqs' = [postReqs EXCEPT ![i].stage = "inserted"]
                /\ motorPost' = motorPost
           ELSE /\ log' = log
                /\ postReqs' = RemoveAt(postReqs, i)
                /\ motorPost' =
                       PostAnswer(postReqs[i].body,
                                  [status |-> 500,
                                   error |-> IF outcome = "insertError"
                                             THEN "Failed to update motor status"
                                             ELSE "Internal server error"])
        /\ UNCHANGED <<sensor, windowed, evals, last, dSensor, dMotor, dReqs, pMotor,
                       isUpdating, pReqs, pTimers>>
        /\ UNCHANGED <<cropVars, scoreVars, smsVars, chatVars>>

\* POST, lines 91-97: simulateMotorCommand has returned and the inserted
\* row is answered.
PostRespond ==
    \E i \in 1..Len(postReqs) :
        /\ postReqs[i].stage = "inserted"
        /\ motorPost' = PostAnswer(postReqs[i].body,
                                   [status |-> 200, data |-> PostRow(postReqs[i].body),
                                    success |-> TRUE])
        /\ postReqs' = RemoveAt(postReqs, i)
        /\ UNCHANGED <<sensor, log, windowed, evals, last, dSensor, dMotor, dReqs, pMotor,
                       isUpdating, pReqs, pTimers, faults>>
        /\ UNCHANGED <<cropVars, scoreVars, smsVars, chatVars>>

\* The endpoint on its own, from the table the schema script leaves; the
\* insert may fail.
InitPost ==
    /\ sensor = NoRow
    /\ log = <<InitialRow>>
    /\ windowed = FALSE
    /\ faults = MaxFaults
    /\ InitClients

NextPost ==
    \/ \E body \in PostBodies, ok \in BOOLEAN : POST(body, ok)
    \/ \E outcome \in {"ok", "insertError", "throws"} : PostInsert(outcome)
    \/ PostRespond

SpecPost == InitPost /\ [][NextPost]_vars

-----------------------------------------------------------------------------
(* SMSNotificationPanel: components/sms-notification-panel.tsx, and the      *)
(* alert endpoint it calls (app/page.tsx, lines 11-98)                       *)

\* Entries the stored history keeps: slice(0, 50).
HistoryLimit == 50

\* SMS reported as sent in one behaviour.
MaxSms == 2

\* Requests of the SMS panel in flight at once.
MaxSmsPending == 1

\* The settings the panel starts with, lines 32-37.
DefaultSettings ==
    [phoneNumber |-> "", alertTypes |-> <<"soil_moisture", "temperature">>,
     autoAlerts |-> TRUE, alertFrequency |-> 60]

\* What is typed into the phone number field: a number, or nothing.
PhoneNumber == "+1234567890"
PhoneInputs == {"", PhoneNumber}

\* What is typed into the frequency field.
FrequencyInputs == {"15", ""}

\* Number.parseInt(text) || 60 on the texts typed: "" gives NaN, which is
\* falsy.
ParseFrequency(text) == IF text = "" THEN 60 ELSE 15

\* The alert type switch the user flips.
SwitchedOptions == {"ammonia"}

\* Array.prototype.includes and filter on the alert types.
Includes(types, type) == \E i \in 1..Len(types) : types[i] = type
Without(types, type) == SelectSeq(types, LAMBDA t : t # type)

\* An entry of the history; id stands for the random id and the timestamp:
\* a later entry has a greater id.
SmsEntry(to, message, type, id) ==
    [to |-> to, message |-> message, status |-> "sent", type |-> type, id |-> id]

\* A history of n entries loaded from localStorage, newest first.
SavedHistory(n) ==
    [i \in 1..n |-> SmsEntry(PhoneNumber, <<"Daily farm status check">>, "manual", -i)]

\* Array.prototype.slice(0, n)
Slice(s, n) == SubSeq(s, 1, Min(Len(s), n))

\* addToHistory, lines 70-80: the history the call sets and saves; history
\* is the smsHistory the calling closure was created with.
addToHistory(history, sms, id) ==
    Slice(<<SmsEntry(sms.to, sms.message, sms.type, id)>> \o history, HistoryLimit)

\* The status message shown under the panel.
Status(type, message) == [type |-> type, message |-> message]

\* The effect of lines 171-182, run after a render in which settings or
\* lastAlert changed: the interval it leaves, whose checkAlerts is the one
\* of that render and adds to the smsHistory of that render, or none.
AutoCheckEffect(settings, history) ==
    IF ~settings.autoAlerts \/ settings.phoneNumber = "" THEN NoRow
    ELSE [history |-> history]

\* saveSettings, lines 64-67: settings is a new object, so the effect of
\* lines 171-182 runs again. (localStorage holds the same settings.)
saveSettings(newSettings) ==
    /\ smsSettings' = newSettings
    /\ smsTimer' = AutoCheckEffect(newSettings, smsHistory)
    /\ UNCHANGED <<smsCustom, smsLastAlert, smsStatus, smsHistory, smsSaved, smsReported,
                   smsReqs, smsLoading>>
    /\ UNCHANGED <<sensor, log, windowed, evals, last, dSensor, dMotor, dReqs, pMotor,
                   isUpdating, pReqs, pTimers, faults>>
    /\ UNCHANGED <<cropVars, scoreVars, postVars, chatVars>>

\* Line 218: the phone number field changes.
SmsPhone(value) ==
    /\ value # smsSettings.phoneNumber
    /\ saveSettings([smsSettings EXCEPT !.phoneNumber = value])

\* Line 230: the Auto Alerts switch of the mounted panel is flipped.
SmsAutoAlerts ==
    /\ smsSettings # NoRow
    /\ saveSettings([smsSettings EXCEPT !.autoAlerts = ~smsSettings.autoAlerts])

\* Lines 234-245: the frequency field, shown while autoAlerts is on, changes.
SmsFrequency(text) ==
    /\ smsSettings.autoAlerts
    /\ saveSettings([smsSettings EXCEPT !.alertFrequency = ParseFrequency(text)])

\* Lines 258-265: the switch of an alert type of the mounted panel is
\* flipped.
SmsAlertType(option) ==
    /\ smsSettings # NoRow
    /\ saveSettings([smsSettings EXCEPT
                       !.alertTypes = IF Includes(smsSettings.alertTypes, option)
                                      THEN Without(smsSettings.alertTypes, option)
                                      ELSE Append(smsSettings.alertTypes, option)])

\* The messages typed into the panel.
CustomMessages == {"  Storm approaching ", "   "}

\* String.prototype.trim on the messages typed into the panel and the chat.
Trim(message) ==
    CASE message = "  Storm approaching " -> "Storm approaching"
      [] message = " Fertilizer advice " -> "Fertilizer advice"
      [] message = "   " -> ""
      [] OTHER -> message

\* Lines 299 and 322: the message field changes or a quick message is
\* chosen.
SmsType(message) ==
    /\ message # smsCustom
    /\ smsCustom' = message
    /\ UNCHANGED <<smsSettings, smsLastAlert, smsStatus, smsHistory, smsSaved, smsReported,
                   smsReqs, smsTimer, smsLoading>>
    /\ UNCHANGED <<sensor, log, windowed, evals, last, dSensor, dMotor, dReqs, pMotor,
                   isUpdating, pReqs, pTimers, faults>>
    /\ UNCHANGED <<cropVars, scoreVars, postVars, chatVars>>

\* A request of the panel in flight, with what the closure that sent it
\* holds: the phone number, the trimmed message or the alert types, and
\* smsHistory.
SmsRequest(kind, to, message, alertTypes, history) ==
    [kind |-> kind, stage |-> "sent", to |-> to, message |-> message,
     alertTypes |-> alertTypes, history |-> history, response |-> NoRow]

\* sendCustomSMS up to the fetch, lines 83-101 (the button is disabled while
\* isLoading, without a phone number and without a message, line 334).
SmsSend ==
    /\ ~smsLoading
    /\ smsSettings.phoneNumber # ""
    /\ Trim(smsCustom) # ""
    /\ Len(smsReqs) < MaxSmsPending /\ Len(smsReported) < MaxSms
    /\ smsLoading' = TRUE
    /\ smsStatus' = NoRow
    /\ smsReqs' = Append(smsReqs, SmsRequest("manual", smsSettings.phoneNumber,
                                             <<Trim(smsCustom)>>, <<>>, smsHistory))
    /\ UNCHANGED <<smsSettings, smsCustom, smsLastAlert, smsHistory, smsSaved, smsReported,
                   smsTimer>>
    /\ UNCHANGED <<sensor, log, windowed, evals, last, dSensor, dMotor, dReqs, pMotor,
                   isUpdating, pReqs, pTimers, faults>>
    /\ UNCHANGED <<cropVars, scoreVars, postVars, chatVars>>

\* sendCustomSMS from line 103: POST /api/sms/send has answered with success
\* (outcome "ok") and the message is added to the history, or without it
\* ("error"), or the fetch failed ("network").
SmsSendDone(outcome) ==
    \E i \in 1..Len(smsReqs) :
        /\ smsReqs[i].kind = "manual"
        /\ IF outcome = "ok"
           THEN LET sms == [to |-> smsReqs[i].to, message |-> smsReqs[i].message,
                            type |-> "manual"]
                    id == Len(smsReported) + 1
                    updatedHistory == addToHistory(smsReqs[i].history, sms, id)
                IN  /\ smsStatus' = Status("success", <<"SMS sent successfully!">>)
                    /\ smsCustom' = ""
                    /\ smsHistory' = updatedHistory
                    /\ smsSaved' = updatedHistory
                    /\ smsReported' = Append(smsReported,
                                             SmsEntry(sms.to, sms.message, sms.type, id))
           ELSE /\ smsStatus' = Status("error", IF outcome = "error"
                                                THEN <<"Failed to send SMS">>
                                                ELSE <<"Network error. Please try again.">>)
                /\ UNCHANGED <<smsCustom, smsHistory, smsSaved, smsReported>>
        /\ smsLoading' = FALSE
        /\ smsReqs' = RemoveAt(smsReqs, i)
        /\ UNCHANGED <<smsSettings, smsLastAlert, smsTimer>>
        /\ UNCHANGED <<sensor, log, windowed, evals, last, dSensor, dMotor, dReqs, pMotor,
                       isUpdating, pReqs, pTimers, faults>>
        /\ UNCHANGED <<cropVars, scoreVars, postVars, chatVars>>

\* checkAlerts up to the fetch, lines 125-138, called by the Check Alerts
\* Now button (byTimer FALSE; disabled while isLoading and without a phone
\* number, line 277) or by the interval, which exists while autoAlerts is on
\* and a phone number is set and calls it when lastAlert is null or
\* alertFrequency minutes old, which it can always have become. Without
\* autoAlerts the call returns at line 126.
SmsCheck(byTimer) ==
    /\ IF byTimer THEN smsTimer # NoRow ELSE ~smsLoading
    /\ smsSettings.phoneNumber # "" /\ smsSettings.autoAlerts
    /\ Len(smsReqs) < MaxSmsPending /\ Len(smsReported) < MaxSms
    /\ smsLoading' = TRUE
    /\ smsReqs' = Append(smsReqs,
                         SmsRequest("check", smsSettings.phoneNumber, <<>>,
                                    smsSettings.alertTypes,
                                    IF byTimer THEN smsTimer.history ELSE smsHistory))
    /\ UNCHANGED <<smsSettings, smsCustom, smsLastAlert, smsStatus, smsHistory, smsSaved,
                   smsReported, smsTimer>>
    /\ UNCHANGED <<sensor, log, windowed, evals, last, dSensor, dMotor, dReqs, pMotor,
                   isUpdating, pReqs, pTimers, faults>>
    /\ UNCHANGED <<cropVars, scoreVars, postVars, chatVars>>

\* POST /api/sms/alerts, lines 24-57 of app/page.tsx: the alerts for a
\* sensor row and the alert types asked for, in the order they are pushed.
Alerts(sensorData, alertTypes) ==
    (IF Includes(alertTypes, "soil_moisture") /\ JsLt(sensorData.soil_moisture, U(25))
     THEN <<[type |-> "soil_moisture",
             message |-> Template("CRITICAL: Soil moisture is very low",
                                  <<sensorData.soil_moisture>>)]>>
     ELSE <<>>)
    \o (IF Includes(alertTypes, "temperature")
           /\ (JsGt(sensorData.air_temperature, U(35)) \/ JsLt(sensorData.air_temperature, U(10)))
        THEN <<[type |-> "temperature",
                message |-> Template("WARNING: Extreme air temperature detected",
                                     <<sensorData.air_temperature>>)]>>
        ELSE <<>>)
    \o (IF Includes(alertTypes, "ammonia") /\ JsGt(sensorData.ammonia, U(30))
        THEN <<[type |-> "ammonia",
                message |-> Template("ALERT: High ammonia levels detected",
                                     <<sensorData.ammonia>>)]>>
        ELSE <<>>)
    \o (IF Includes(alertTypes, "pressure") /\ JsLt(sensorData.pressure, U(99))
        THEN <<[type |-> "pressure",
                message |-> Template("WEATHER: Low pressure detected", <<sensorData.pressure>>)]>>
        ELSE <<>>)

\* Lines 60-79: the alerts whose POST /api/sms/send answered ok, in order;
\* sent[i] tells whether the i-th did.
SentAlerts(alerts, sent) ==
    LET RECURSIVE From(_)
        From(i) == IF i > Len(alerts) THEN <<>>
                   ELSE (IF sent[i] THEN <<alerts[i]>> ELSE <<>>) \o From(i + 1)
    IN  From(1)

\* POST /api/sms/alerts, lines 14-98: 400 without a phone number; otherwise
\* the latest sensor row is read (demo data when that fails or the table is
\* empty), the alerts are built (toFixed throws on a field that is not a
\* number, caught as 500) and sent one by one, and the ones sent are
\* answered. (The sensorData of the answer, which the panel does not read,
\* is left out.)
SmsAlertsAnswer(to, alertTypes, sensorData, sent) ==
    LET alerts == Alerts(sensorData, alertTypes)
        sentAlerts == SentAlerts(alerts, sent)
    IN  IF to = "" THEN [status |-> 400, error |-> "Phone number is required"]
        ELSE IF \E j \in 1..Len(alerts) : alerts[j].message = TypeError
        THEN [status |-> 500, error |-> "Failed to check alerts"]
        ELSE [status |-> 200, success |-> TRUE, alertsFound |-> Len(alerts),
              alertsSent |-> Len(sentAlerts), alerts |-> sentAlerts]

\* Lines 60-79: every alert is sent in a try of its own, so each of n alerts
\* is sent or not whatever became of the others.
SendOutcomes(n) == [1..n -> BOOLEAN]

\* The endpoint handles a request of the panel.
SmsAlerts(ok) ==
    \E i \in 1..Len(smsReqs) :
        /\ Storage(ok)
        /\ smsReqs[i].kind = "check"
        /\ smsReqs[i].stage = "sent"
        /\ \E sensorData \in getLatestReading(IF ok THEN sensor ELSE NoRow) :
              \E sent \in SendOutcomes(Len(Alerts(sensorData, smsReqs[i].alertTypes))) :
                  smsReqs' = [smsReqs EXCEPT
                                ![i].stage = "answered",
                                ![i].response = SmsAlertsAnswer(smsReqs[i].to,
                                                                smsReqs[i].alertTypes,
                                                                sensorData, sent)]
        /\ UNCHANGED <<smsSettings, smsCustom, smsLastAlert, smsStatus, smsHistory,
                       smsSaved, smsReported, smsTimer, smsLoading>>
        /\ UNCHANGED <<sensor, log, windowed, evals, last, dSensor, dMotor, dReqs,
                       pMotor, isUpdating, pReqs, pTimers>>
        /\ UNCHANGED <<cropVars, scoreVars, postVars, chatVars>>

\* result.alerts.forEach(addToHistory), lines 151-158: every call starts
\* from the smsHistory of the same closure, so the history set last is the
\* one of the last alert.
RECURSIVE AddAlerts(_, _, _, _, _)
AddAlerts(to, history, current, alerts, id) ==
    IF alerts = <<>> THEN current
    ELSE AddAlerts(to, history,
                   addToHistory(history, [to |-> to, message |-> Head(alerts).message,
                                          type |-> "alert"], id),
                   Tail(alerts), id + 1)

RECURSIVE ReportAlerts(_, _, _, _)
ReportAlerts(to, reported, alerts, id) ==
    IF alerts = <<>> THEN reported
    ELSE ReportAlerts(to, Append(reported, SmsEntry(to, Head(alerts).message, "alert", id)),
                      Tail(alerts), id + 1)

\* checkAlerts from line 140: the answer has arrived, or (arrived FALSE)
\* the fetch failed. With alerts sent, lastAlert is set, which makes the
\* effect of lines 171-182 run again after the render, and the alerts are
\* added to the history; an answer without success changes nothing.
SmsCheckDone(arrived) ==
    \E i \in 1..Len(smsReqs) :
        /\ smsReqs[i].kind = "check"
        /\ arrived => smsReqs[i].stage = "answered"
        /\ LET result == smsReqs[i].response
               id == Len(smsReported) + 1
           IN  IF ~arrived
               THEN /\ smsStatus' = Status("error", <<"Failed to check alerts">>)
                    /\ UNCHANGED <<smsHistory, smsSaved, smsTimer, smsReported, smsLastAlert>>
               ELSE IF result.status # 200
               THEN UNCHANGED <<smsStatus, smsHistory, smsSaved, smsTimer, smsReported,
                                smsLastAlert>>
               ELSE IF result.alertsSent > 0
               THEN /\ smsStatus' = Status("info", <<ToString(result.alertsSent),
                                                     "alert(s) sent based on current conditions">>)
                    /\ smsLastAlert' = TRUE
                    /\ smsHistory' = AddAlerts(smsReqs[i].to, smsReqs[i].history, smsHistory,
                                               result.alerts, id)
                    /\ smsSaved' = smsHistory'
                    /\ smsTimer' = AutoCheckEffect(smsSettings, smsHistory')
                    /\ smsReported' = ReportAlerts(smsReqs[i].to, smsReported, result.alerts, id)
               ELSE /\ smsStatus' = Status("success",
                                           <<"All conditions normal - no alerts needed">>)
                    /\ UNCHANGED <<smsHistory, smsSaved, smsTimer, smsReported, smsLastAlert>>
        /\ smsLoading' = FALSE
        /\ smsReqs' = RemoveAt(smsReqs, i)
        /\ UNCHANGED <<smsSettings, smsCustom>>
        /\ UNCHANGED <<sensor, log, windowed, evals, last, dSensor, dMotor, dReqs, pMotor,
                       isUpdating, pReqs, pTimers, faults>>
        /\ UNCHANGED <<cropVars, scoreVars, postVars, chatVars>>

\* Sensor rows for the alert check: nothing to report; dry and hot, with
\* ammonia.
SmsReadings ==
    { CropReading(U(55), U(21), U(25), U(60), <<U(50), U(101) + 300, U(0), U(5)>>),
      CropReading(U(20), U(21), U(38), U(60), <<U(50), U(101) + 300, U(0), U(35)>>) }

\* The panel mounted, with settings loaded from localStorage or none, and
\* a history loaded from it: empty or full.
InitSms ==
    /\ sensor \in SmsReadings
    /\ log = <<InitialRow>>
    /\ windowed = FALSE
    /\ faults = MaxFaults
    /\ InitPanels /\ NoScoreCall /\ NoMotorPost /\ NoChatbot
    /\ smsSettings \in {DefaultSettings, [DefaultSettings EXCEPT !.phoneNumber = PhoneNumber]}
    /\ smsHistory \in {SavedHistory(0), SavedHistory(HistoryLimit)}
    /\ smsSaved = smsHistory
    /\ smsTimer = AutoCheckEffect(smsSettings, smsHistory)
    /\ smsCustom = "" /\ smsLastAlert = FALSE /\ smsStatus = NoRow
    /\ smsReported = <<>> /\ smsReqs = <<>> /\ smsLoading = FALSE

NextSms ==
    \/ \E value \in PhoneInputs : SmsPhone(value)
    \/ SmsAutoAlerts
    \/ \E text \in FrequencyInputs : SmsFrequency(text)
    \/ \E option \in SwitchedOptions : SmsAlertType(option)
    \/ \E message \in CustomMessages : SmsType(message)
    \/ SmsSend
    \/ \E outcome \in {"ok", "error", "network"} : SmsSendDone(outcome)
    \/ \E byTimer \in BOOLEAN : SmsCheck(byTimer)
    \/ \E ok \in BOOLEAN : SmsAlerts(ok)
    \/ \E arrived \in BOOLEAN : SmsCheckDone(arrived)

SpecSms == InitSms /\ [][NextSms]_vars

-----------------------------------------------------------------------------
(* FarmerAssistantChatbot: components/crop-recommendation-panel.tsx, lines  *)
(* 396-781, and POST /api/chat: app/api/thingspeak/route.ts, lines 182-256  *)

\* A message is sent while the transcript holds fewer messages than this.
MaxChat == 2

\* What is typed or picked as a suggestion.
ChatInputs == {" Fertilizer advice ", "   "}

\* sendMessage up to the fetch.
ChatSend(messageContent) ==
    /\ Trim(messageContent) # "" /\ ~chatLoading
    /\ chatMessages # <<>> /\ Len(chatMessages) < MaxChat
    /\ chatMessages' = Append(chatMessages,
                              [role |-> "user", content |-> <<Trim(messageContent)>>])
    /\ chatLoading' = TRUE
    /\ chatReqs' = Append(chatReqs, [message |-> Trim(messageContent)])
    /\ UNCHANGED <<sensor, log, windowed, evals, last, dSensor, dMotor, dReqs, pMotor,
                   isUpdating, pReqs, pTimers, faults>>
    /\ UNCHANGED <<cropVars, scoreVars, postVars, smsVars>>

\* POST /api/chat: the model's answer (or a fixed text when it has no
\* content), the generated fallback when the model answers with an error,
\* a fixed text when the call of the model throws (the body cannot be read
\* a second time), 400 without a message.
ChatPOST(message, outcome) ==
    IF message = "" THEN [ok |-> FALSE, message |-> <<"Message is required">>, fallback |-> FALSE]
    ELSE CASE outcome = "reply" ->
                [ok |-> TRUE, message |-> <<"reply", message>>, fallback |-> FALSE]
           [] outcome = "empty" ->
                [ok |-> TRUE, message |-> <<"Sorry, I could not generate a response.">>,
                 fallback |-> FALSE]
           [] outcome = "fallback" ->
                [ok |-> TRUE, message |-> <<"fallback", message>>, fallback |-> TRUE]
           [] OTHER ->
                [ok |-> TRUE,
                 message |-> <<"I'm having trouble understanding your request.">>,
                 fallback |-> TRUE]

ChatOutcomes == {"reply", "empty", "fallback", "unreachable", "network"}

\* The response arrives (or the fetch fails: outcome "network") and
\* sendMessage goes on: the answer or the error text is appended and
\* isLoading is reset.
ChatReply(outcome) ==
    \E i \in 1..Len(chatReqs) :
        LET response == ChatPOST(chatReqs[i].message, outcome)
            assistantMessage ==
                IF outcome = "network" \/ ~response.ok
                THEN [role |-> "assistant",
                      content |-> <<"I'm sorry, I'm having trouble connecting right now.">>,
                      fallback |-> TRUE]
                ELSE [role |-> "assistant", content |-> response.message,
                      fallback |-> response.fallback]
        IN  /\ chatMessages' = Append(chatMessages, assistantMessage)
            /\ chatLoading' = FALSE
            /\ chatReqs' = RemoveAt(chatReqs, i)
            /\ UNCHANGED <<sensor, log, windowed, evals, last, dSensor, dMotor, dReqs,
                           pMotor, isUpdating, pReqs, pTimers, faults>>
            /\ UNCHANGED <<cropVars, scoreVars, postVars, smsVars>>

\* clearChat: the Clear button.
ChatClear ==
    /\ chatMessages # <<>>
    /\ chatMessages' = <<[role |-> "assistant", id |-> "welcome-new",
                          content |-> <<"Chat cleared!">>]>>
    /\ UNCHANGED <<chatLoading, chatReqs>>
    /\ UNCHANGED <<sensor, log, windowed, evals, last, dSensor, dMotor, dReqs, pMotor,
                   isUpdating, pReqs, pTimers, faults>>
    /\ UNCHANGED <<cropVars, scoreVars, postVars, smsVars>>

\* The assistant tab of a dashboard that has just loaded: fetchLatestData
\* and fetchMotorStatus have stored the latest rows, the auto motor effect
\* has run on them, and the chatbot is mounted and shows its welcome
\* message. The dashboard goes on refreshing its sensor data and its motor
\* status every 30 s, its auto motor effect goes on writing and the Motor
\* button of the header is at hand. A storage call may fail from now on,
\* and after a failed read of the sensor table the dashboard shows a demo
\* reading.
InitChat ==
    /\ sensor \in SmsReadings
    /\ log = <<InitialRow>>
    /\ windowed = FALSE
    /\ faults = MaxFaults
    /\ evals = <<>> /\ last = NoRun
    /\ dSensor = sensor /\ dMotor = Latest(log)
    /\ dReqs = DashAutoEffect(dSensor, dMotor)
    /\ pMotor = NoRow /\ isUpdating = FALSE /\ pReqs = <<>> /\ pTimers = 0
    /\ cropTable = <<>> /\ cropResponse = NoRow /\ cropReqs = <<>>
    /\ NoScoreCall /\ NoMotorPost /\ NoSmsPanel
    /\ chatMessages = <<WelcomeMessage(dSensor)>>
    /\ chatLoading = FALSE /\ chatReqs = <<>>

NextChat ==
    \/ \E messageContent \in ChatInputs : ChatSend(messageContent)
    \/ \E outcome \in ChatOutcomes : ChatReply(outcome)
    \/ ChatClear
    \/ \E ok \in BOOLEAN : DashFetchSensor(ok)
    \/ DashSensorDone
    \/ \E ok \in BOOLEAN : DashFetchMotor(ok)
    \/ DashToggle
    \/ \E ok \in BOOLEAN : updateMotorStatus(ok)
    \/ DashMotorDone

SpecChat == InitChat /\ [][NextChat]_vars

-----------------------------------------------------------------------------
(* calculateParameterScore called on its own *)

\* The ranges calculateParameterScore is called with, lines 253-256: those
\* of the five profiles.
ScoreRanges ==
    {CropProfiles[i].optimal[ScoredParameters[j]] :
        i \in 1..Len(CropProfiles), j \in 1..Len(ScoredParameters)}

\* The values it is called with (in thousandths): the ends and the midpoints
\* of these ranges, and values between and beyond them.
ScoreValues ==
    {U(optimal[1]) : optimal \in ScoreRanges}
    \cup {U(optimal[2]) : optimal \in ScoreRanges}
    \cup {500 * (optimal[1] + optimal[2]) : optimal \in ScoreRanges}
    \cup {U(0), U(21), U(38), U(39) + 900, U(40) + 100, U(71), U(78) + 900, U(86), U(100)}

\* One call: the arguments and the double returned.
ScoreCall(value, optimal) ==
    /\ scoreCall' = [value |-> value, optimal |-> optimal]
    /\ scoreReturn' = calculateParameterScore(value, optimal)
    /\ UNCHANGED <<sensor, log, windowed, evals, last, dSensor, dMotor, dReqs, pMotor,
                   isUpdating, pReqs, pTimers, faults>>
    /\ UNCHANGED <<cropVars, postVars, smsVars, chatVars>>

\* The scorer called again and again for one range.
InitScore ==
    /\ sensor = NoRow
    /\ log = <<InitialRow>>
    /\ windowed = FALSE
    /\ faults = 0
    /\ InitClients

NextScore ==
    \E value \in ScoreValues, optimal \in ScoreRanges :
        /\ scoreCall # NoRow => optimal = scoreCall.optimal
        /\ ScoreCall(value, optimal)

SpecScore == InitScore /\ [][NextScore]_vars

-----------------------------------------------------------------------------
(* The Irrigation Policy as specified: rules 1-5, first match wins, rule 5   *)
(* holds the current state.                                                 *)

IrrigationPolicy(r, current) ==
    IF r.rainfall.v > U(1) THEN FALSE
    ELSE IF r.soil_moisture.v < U(30) THEN TRUE
    ELSE IF r.soil_moisture.v > U(60) THEN FALSE
    ELSE IF /\ r.soil_moisture.v < U(40)
            /\ r.air_temperature.v > U(30)
            /\ r.air_humidity.v < U(50) THEN TRUE
    ELSE current

-----------------------------------------------------------------------------
(* Claims *)

RainReason(r) == <<"Deactivated due to rainfall", toFixed1(r.rainfall.v)>>

Raining(r) == r.rainfall.k = "num" /\ r.rainfall.v > U(1)

\* C1 (rainfall precedence): for every reading with rainfall > 1 mm the
\* evaluation decides activate = false whatever the other fields are, and the
\* reason of the row it writes cites the rainfall amount.
C1_RainfallPrecedence ==
    Raining(sensor) =>
        /\ generateAutoControlReason(sensor, determineMotorAction(sensor)) = RainReason(sensor)
        /\ \A i \in 1..Len(evals) :
              /\ evals[i].pc = "insert" =>
                    evals[i].row.status = FALSE /\ evals[i].row.reason = RainReason(sensor)
              /\ evals[i].run.decided => evals[i].run.shouldActivate = FALSE
        /\ last.decided => last.shouldActivate = FALSE
        /\ last.appended =>
              Latest(log).status = FALSE /\ Latest(log).reason = RainReason(sensor)

\* C1 witness: in 2 mm of rain on critically dry soil (15 %) a running motor
\* was switched off with the rainfall reason.
C1_Witness ==
    /\ sensor.rainfall = Num(U(2)) /\ sensor.soil_moisture = Num(U(15))
    /\ last.appended /\ last.currentStatus = TRUE
    /\ Latest(log) = MotorRow(FALSE, "automatic", <<"Deactivated due to rainfall", <<"", 2, 0>>>>,
                              "system")

\* No rule 1-4 fires on a complete reading.
HoldCase(r) ==
    /\ IsComplete(r)
    /\ r.rainfall.v <= U(1)
    /\ r.soil_moisture.v >= U(30) /\ r.soil_moisture.v <= U(60)
    /\ ~(r.soil_moisture.v < U(40) /\ r.air_temperature.v > U(30) /\ r.air_humidity.v < U(50))

\* C2 (hold rule): when no earlier rule fires the decision equals the current
\* motor status, for ON and for OFF, and no row is appended.
C2_HoldRule ==
    (HoldCase(sensor) /\ last.decided) =>
        last.shouldActivate = last.currentStatus /\ ~last.appended

\* The response of evaluation i reaches its caller in this step.
RouteResponds(i) ==
    evals[i].pc = "done" /\ evals' = RemoveAt(evals, i) /\ last' = evals[i].run

\* Evaluation i reads the current motor row in this step.
RouteReads(i) ==
    evals[i].pc = "sensor" /\ Len(evals') = Len(evals) /\ evals'[i].pc # "sensor"

\* The insert of evaluation i lands in this step.
RouteInserts(i) ==
    /\ evals[i].pc = "insert" /\ Len(evals') = Len(evals)
    /\ evals'[i].pc = "done" /\ evals'[i].run.appended

\* C3 as claimed: an evaluation appends only if its decision differs from the
\* status of the latest row of the log.
C3_AppendOnlyOnChange_Latest ==
    [][\A i \in 1..Len(evals) :
          RouteInserts(i) => evals[i].row.status # Latest(log).status]_vars

\* C3 as amended: an evaluation appends only if its decision differs from the
\* status of the row it read as current, and then appends exactly the decided
\* row; when the decision equals that status the evaluation leaves the log
\* as it is and the action reported is none.
C3_AppendOnlyOnChange ==
    [][\A i \in 1..Len(evals) :
        /\ RouteInserts(i) =>
              /\ evals[i].run.decided
              /\ evals[i].run.shouldActivate # evals[i].run.currentStatus
              /\ log' = Append(log, evals[i].row)
              /\ evals[i].row.status = evals[i].run.shouldActivate
        /\ RouteReads(i) =>
              /\ log' = log
              /\ evals'[i].run.currentStatus = Latest(log).status
              /\ evals'[i].run.decided =>
                    IF evals'[i].run.shouldActivate = evals'[i].run.currentStatus
                    THEN /\ evals'[i].pc = "done"
                         /\ evals'[i].run.result = "none" /\ ~evals'[i].run.appended
                    ELSE evals'[i].pc = "insert"
        /\ RouteResponds(i) =>
              /\ log' = log
              /\ last'.appended => last'.shouldActivate # last'.currentStatus
      ]_vars

\* C3 witness: one evaluation has appended its decision (ON over OFF) and the
\* next one, deciding ON again, has reported none.
C3_Witness ==
    /\ Len(log) = 2 /\ log[2].changed_by = "system" /\ log[2].status = TRUE
    /\ last.result = "none" /\ last.decided /\ last.shouldActivate = TRUE
    /\ last.currentStatus = TRUE

\* The evaluation ran in automatic mode and answered without an error.
Completed(run) == run.decided /\ run.result \in {"none", "activated", "deactivated"}

\* C4 (idempotence): of two evaluations run in sequence on the same reading
\* (the second is sent after the response of the first has arrived, and no
\* other request is in flight with it), the first one completing in
\* automatic mode, the second decides the same activate value and appends
\* nothing; two evaluations in sequence never append more than one row in
\* total.
C4_Idempotent ==
    [][\A i \in 1..Len(evals) :
        (RouteResponds(i) /\ evals[i].solo) =>
            /\ ~(last.appended /\ last'.appended)
            /\ Completed(last) =>
                  /\ ~last'.appended
                  /\ last'.decided => last'.shouldActivate = last.shouldActivate
                  /\ Completed(last') => last'.result = "none"
      ]_vars

\* C4 witness: a first evaluation has switched the motor on (moisture 15 %)
\* and a second one on the same reading has answered none.
C4_Witness ==
    /\ sensor = Reading(Num(U(15)), Num(U(22)), Num(U(50)), Num(U(0)))
    /\ Len(log) = 2
    /\ log[2] = MotorRow(TRUE, "automatic", <<"Critical soil moisture level", <<"", 15, 0>>>>,
                         "system")
    /\ last.result = "none" /\ last.decided /\ last.shouldActivate
    /\ evals = <<>>

\* C5 (only the policy drives automatic mode): while the current row has
\* mode automatic, every row appended with changed_by = system has the status
\* the Irrigation Policy decides for the latest sensor reading.
C5_SystemFollowsPolicy ==
    [][(log' # log /\ Latest(log).mode = "automatic" /\ Latest(log').changed_by = "system")
          => Latest(log').status = IrrigationPolicy(sensor, Latest(log).status)]_vars

\* C6 (manual mode): while the current row has mode manual, no row is
\* appended except by a user command.
C6_ManualOnlyUser ==
    [][(log' # log /\ Latest(log).mode = "manual") => Latest(log').changed_by = "user"]_vars

\* The evaluation had no sensor reading to decide on.
WithoutReading(e) == e.pc = "done" /\ e.sensorData = NoRow

C8_SelfCorrection ==
    /\ <>[](Latest(log).status = IrrigationPolicy(sensor, Latest(log).status))
    /\ <>[][log' = log]_vars

\* log2 is log1 with zero or more rows added at the end.
Extends(log2, log1) ==
    Len(log2) >= Len(log1) /\ SubSeq(log2, 1, Len(log1)) = log1

\* The dashboard's client reads the current motor row in this step.
DashReads ==
    /\ Len(dReqs') = Len(dReqs) + 1 /\ dReqs'[Len(dReqs')].kind = "motor"
    /\ faults' = faults

\* GET /api/motor reads the current motor row for the panel in this step.
PanelReads ==
    /\ Len(pReqs') = Len(pReqs) + 1 /\ pReqs'[Len(pReqs')].kind = "fetch"
    /\ faults' = faults

\* C9 (append-only log): every step leaves the log as it is or adds exactly
\* one row after all others, so no row is ever modified or deleted; a change
\* of the current status or mode always comes with a new row, and the current
\* state every successful read returns is the row added last.
C9_AppendOnly ==
    [][/\ Extends(log', log) /\ Len(log') <= Len(log) + 1
       /\ log' = log => Latest(log') = Latest(log)
       /\ DashReads => dReqs'[Len(dReqs')].value = log[Len(log)]
       /\ PanelReads => pReqs'[Len(pReqs')].response = log[Len(log)]
       /\ \A i \in 1..Len(evals) :
             (RouteReads(i) /\ faults' = faults) =>
                 evals'[i].run.currentStatus = log[Len(log)].status
      ]_vars

\* C9 witness: the log holds the initial row, a row written by the system
\* and a row written by a user.
C9_Witness ==
    /\ Len(log) = 3 /\ log[1] = InitialRow
    /\ log[2].changed_by = "system" /\ log[2].status = TRUE
    /\ log[3].changed_by = "user" /\ log[3].status = FALSE

\* The insert of request i of the panel lands in this step.
PanelPosts(i) ==
    /\ pReqs[i].stage = "sent" /\ Len(pReqs') = Len(pReqs)
    /\ pReqs'[i].stage = "answered" /\ pReqs'[i].response # NoRow

\* C10 (last write wins): the insert of an auto-control evaluation and the
\* insert of a manual toggle each add their own row whatever was written in
\* between, and a read of the current state by the panel returns the row
\* that was added last.
C10_LastWriteWins ==
    [][/\ \A i \in 1..Len(evals) : RouteInserts(i) => log' = Append(log, evals[i].row)
       /\ \A i \in 1..Len(pReqs) : PanelPosts(i) => log' = Append(log, pReqs[i].body)
       /\ PanelReads => pReqs'[Len(pReqs')].response = log[Len(log)]
      ]_vars

\* C10 witness: an evaluation read the automatic OFF row, a manual toggle
\* was appended before its insert landed, both rows are in the log and the
\* panel, reading afterwards, shows the row appended last.
C10_Witness ==
    /\ Len(log) = 3
    /\ log[2].changed_by = "user" /\ log[2].mode = "manual"
    /\ log[3].changed_by = "system"
    /\ last.appended /\ last.currentStatus = FALSE
    /\ evals = <<>> /\ pReqs = <<>>
    /\ pMotor = log[3]

\* The default record of the motor log: off, automatic, written by the
\* system with the initial-setup reason.
IsDefaultRecord(row) ==
    /\ row.status = FALSE /\ row.mode = "automatic" /\ row.changed_by = "system"
    /\ row.reason \in {<<"Initial setup">>, <<"Initial system setup">>}

\* A read of the current motor state has come back: to the dashboard from
\* the client's getMotorStatus, to the panel from GET /api/motor, or to a
\* caller of the auto-control route.
MotorStateWasRead == dMotor # NoRow \/ pMotor # NoRow \/ last # NoRun

\* C11 (seeding on an empty log): once a read of the current motor state
\* has come back, on whatever read path, the log is not empty and starts
\* with the default record.
C11_SeedOnEmptyRead ==
    MotorStateWasRead => log # <<>> /\ IsDefaultRecord(log[1])

\* A storage call fails in this step.
StorageFails == faults' < faults

\* The handler of evaluation i ends in this step, answering an error
\* without having inserted a row.
RouteFails(i) ==
    /\ evals[i].pc # "done" /\ Len(evals') = Len(evals)
    /\ evals' = [evals EXCEPT ![i] = evals'[i]]
    /\ evals'[i].pc = "done"
    /\ evals'[i].run.result = "error" /\ ~evals'[i].run.appended

\* C12 (a failed check changes nothing): when the sensor read, the motor
\* read or the insert of an evaluation fails, the handler ends there with
\* an error and the log is what it was; an evaluation that answers with an
\* error has inserted no row, so no command was issued (none is without an
\* inserted row), and the endpoint goes on handling evaluations.
C12_FailedCheckChangesNothing ==
    [][/\ StorageFails =>
             /\ log' = log
             /\ \E i \in 1..Len(evals) : RouteFails(i)
       /\ \A i \in 1..Len(evals) :
             (RouteResponds(i) /\ last'.result = "error") =>
                 log' = log /\ ~last'.appended
      ]_vars

\* C12 witness: on dry soil with the motor off the insert of the ON row has
\* failed and the evaluation answered with an error; an evaluation sent
\* after that has inserted the row.
C12_Witness ==
    /\ faults = 0
    /\ sensor = Reading(Num(U(15)), Num(U(22)), Num(U(50)), Num(U(0)))
    /\ last.result = "error" /\ last.decided /\ last.shouldActivate
    /\ ~last.appended
    /\ Len(evals) = 1 /\ evals[1].solo /\ evals[1].pc = "done"
    /\ evals[1].run.appended
    /\ log = <<InitialRow, evals[1].row>>

\* A complete reading in the case of the low-moisture rule.
LowMoisture(r) == IsComplete(r) /\ r.rainfall.v <= U(1) /\ r.soil_moisture.v < U(30)

\* C13 (low-moisture rule): for every reading with rainfall <= 1 mm and
\* soil moisture below 30 % the decision is activate = true; the reason says
\* critical below 20 % and low from 20 % up to 30 %, and an evaluation that
\* finds the motor off appends the ON row with that reason.
C13_LowMoistureRule ==
    LowMoisture(sensor) =>
        LET reason == generateAutoControlReason(sensor, TRUE)
            said == IF sensor.soil_moisture.v < U(20) THEN "Critical soil moisture level"
                                                      ELSE "Low soil moisture"
        IN  /\ determineMotorAction(sensor) = TRUE
            /\ reason = <<said, toFixed1(sensor.soil_moisture.v)>>
            /\ last.decided => last.shouldActivate = TRUE
            /\ \A i \in 1..Len(evals) :
                  evals[i].pc = "insert" =>
                      evals[i].row.status = TRUE /\ evals[i].row.reason = reason
            /\ last.appended => Latest(log).status = TRUE /\ Latest(log).reason = reason

\* C13 witness: at 19.96 % the motor was switched on with the critical
\* reason, which prints the moisture as 20.0.
C13_Witness ==
    /\ sensor.soil_moisture = Num(U(20) - 40) /\ sensor.rainfall = Num(U(1))
    /\ last.appended /\ last.currentStatus = FALSE
    /\ Latest(log).status = TRUE
    /\ Latest(log).reason = <<"Critical soil moisture level", <<"", 20, 0>>>>

\* Hot air (above 30 C) that is dry (humidity below 50 %).
HotAndDryAir(r) == r.air_temperature.v > U(30) /\ r.air_humidity.v < U(50)

\* A complete reading in the case of the hot-and-dry rule.
HotDry(r) ==
    /\ IsComplete(r) /\ r.rainfall.v <= U(1)
    /\ r.soil_moisture.v >= U(30) /\ r.soil_moisture.v < U(40)
    /\ HotAndDryAir(r)

HotDryReason(r) ==
    <<"Hot and dry conditions", toFixed1(r.air_temperature.v), toFixed1(r.air_humidity.v)>>

\* C14 (hot-and-dry rule): for every reading with rainfall <= 1 mm, soil
\* moisture from 30 % to below 40 %, air above 30 C and humidity below 50 %
\* the decision is activate = true with the hot-and-dry reason; in hot and
\* dry air the rainfall rule and the low-moisture rule still come first.
C14_HotDryRule ==
    /\ HotDry(sensor) =>
          /\ determineMotorAction(sensor) = TRUE
          /\ generateAutoControlReason(sensor, TRUE) = HotDryReason(sensor)
          /\ last.decided => last.shouldActivate = TRUE
          /\ last.appended =>
                Latest(log).status = TRUE /\ Latest(log).reason = HotDryReason(sensor)
    /\ (IsComplete(sensor) /\ HotAndDryAir(sensor)) =>
          /\ Raining(sensor) => determineMotorAction(sensor) = FALSE
          /\ LowMoisture(sensor) =>
                generateAutoControlReason(sensor, determineMotorAction(sensor))[1]
                    \in {"Critical soil moisture level", "Low soil moisture"}
          /\ (last.appended /\ ~HotDry(sensor)) => Latest(log).reason # HotDryReason(sensor)

\* C14 witness: at 39.99 % moisture, 30.01 C and 49.99 % humidity the motor
\* was switched on with the hot-and-dry reason, which prints 30.0 and 50.0.
C14_Witness ==
    /\ sensor = Reading(Num(U(40) - 10), Num(U(30) + 10), Num(U(50) - 10), Num(U(1)))
    /\ last.appended /\ last.currentStatus = FALSE
    /\ Latest(log) = MotorRow(TRUE, "automatic",
                              <<"Hot and dry conditions", <<"", 30, 0>>, <<"", 50, 0>>>>, "system")

\* A complete reading in the case of the high-moisture rule.
HighMoisture(r) == IsComplete(r) /\ r.rainfall.v <= U(1) /\ r.soil_moisture.v > U(60)

\* C15 (high-moisture rule): for every reading with rainfall <= 1 mm and
\* soil moisture above 60 % the decision is activate = false whatever the
\* air temperature and humidity, and the reason cites adequate moisture (up
\* to 70 %) or high moisture (above 70 %).
C15_HighMoistureRule ==
    HighMoisture(sensor) =>
        LET reason == generateAutoControlReason(sensor, FALSE)
            said == IF sensor.soil_moisture.v > U(70) THEN "High soil moisture"
                                                      ELSE "Adequate soil moisture"
        IN  /\ determineMotorAction(sensor) = FALSE
            /\ reason = <<said, toFixed1(sensor.soil_moisture.v)>>
            /\ last.decided => last.shouldActivate = FALSE
            /\ \A i \in 1..Len(evals) :
                  evals[i].pc = "insert" =>
                      evals[i].row.status = FALSE /\ evals[i].row.reason = reason
            /\ last.appended => Latest(log).status = FALSE /\ Latest(log).reason = reason

\* C15 witness: at 60.01 % moisture in hot and dry air a running motor was
\* switched off with the adequate-moisture reason.
C15_Witness ==
    /\ sensor = Reading(Num(U(60) + 10), Num(U(30) + 10), Num(U(50) - 10), Num(U(0)))
    /\ last.appended /\ last.currentStatus = TRUE
    /\ Latest(log) = MotorRow(FALSE, "automatic", <<"Adequate soil moisture", <<"", 60, 0>>>>,
                              "system")

-----------------------------------------------------------------------------
(* Claims about the crop advice *)

\* The endpoint has answered with recommendations.
CropAnswered == cropResponse # NoRow /\ cropResponse.status = 200

\* The lists of recommendations held by the calls being handled and by the
\* last answer.
CropLists ==
    {cropReqs[i].recommendations : i \in 1..Len(cropReqs)}
    \cup (IF CropAnswered THEN {cropResponse.recommendations} ELSE {})

\* The profile of a crop.
ProfileOf(crop_type) ==
    CropProfiles[CHOOSE i \in 1..Len(CropProfiles) : CropProfiles[i].crop_type = crop_type]

\* The score a list gives a crop.
ScoreIn(recs, crop_type) ==
    recs[CHOOSE i \in 1..Len(recs) : recs[i].crop_type = crop_type].suitability_score

\* C16 (score bounds): for every sensor row and every built-in profile the
\* overall suitability score is an integer from 20 to 100, in every list of
\* recommendations generated or answered and in the stored confidence
\* (score / 100).
C16_ScoreBounds ==
    /\ \A recs \in CropLists : \A i \in 1..Len(recs) : recs[i].suitability_score \in 20..100
    /\ \A b \in 1..Len(cropTable) : \A i \in 1..Len(cropTable[b]) :
          /\ cropTable[b][i].confidence_score.n \in 20..100
          /\ cropTable[b][i].confidence_score.d = 100

\* C16 witness: with every parameter far outside the tomato ranges the
\* answer, which was stored, gives tomatoes score 20, the lower clamp.
C16_Witness ==
    /\ sensor.soil_moisture = Num(U(0)) /\ sensor.soil_temperature = Num(-U(10))
    /\ sensor.air_temperature = Num(U(2) + 600) /\ sensor.air_humidity = Num(U(0))
    /\ CropAnswered
    /\ ScoreIn(cropResponse.recommendations, "Tomatoes") = 20
    /\ Len(cropTable) = 1

\* How far (in thousandths) a value lies outside a range; 0 inside.
Outside(value, optimal) ==
    IF value < U(optimal[1]) THEN U(optimal[1]) - value
    ELSE IF value > U(optimal[2]) THEN value - U(optimal[2])
    ELSE 0

\* The double x is the number e thousandths up to the rounding of the
\* arithmetic: it is within 2^-40 of it.
IsNear(x, e) ==
    LET a == BigMulSmall(x.mag, 1000)
        b == BigShl(BigOf(e), 90)
        gap == IF BigCmp(a, b) >= 0 THEN BigSub(a, b) ELSE BigSub(b, a)
    IN  ~x.nan /\ ~x.neg /\ BigCmp(gap, BigShl(BigOf(1000), 50)) <= 0

\* What the formula max(20, 100 - min(distance * 5, 80)) gives, in
\* thousandths, for a distance in thousandths.
OutsideFormula(distance) == Max(U(20), U(100) - Min(5 * distance, U(80)))

\* C17 as stated (sub-score outside the range): for every value below min
\* or above max, with distance = min - value or value - max, the sub-score
\* returned equals max(20, 100 - min(distance * 5, 80)).
C17_ExactOutsideScore ==
    scoreCall # NoRow =>
        LET distance == Outside(scoreCall.value, scoreCall.optimal)
        IN  distance > 0 => scoreReturn = DoubleOf(OutsideFormula(distance))

\* C17 (sub-score outside the range), amended: for every value below min or
\* above max, with distance = min - value or value - max, the sub-score
\* returned is max(20, 100 - min(distance * 5, 80)) evaluated in doubles: it
\* is within 2^-40 of that number, and it is exactly 20 from 16 units out.
C17_OutsideScore ==
    scoreCall # NoRow =>
        LET distance == Outside(scoreCall.value, scoreCall.optimal)
        IN  distance > 0 =>
                /\ IsNear(scoreReturn, OutsideFormula(distance))
                /\ distance >= U(16) => scoreReturn = DoubleOf(U(20))

\* C17 witness: 39.9 is 9.9 above the range [20, 30] of the tomato air
\* temperature; the call returned a double next to 50.5, not 50.5 itself.
C17_Witness ==
    /\ scoreCall # NoRow
    /\ scoreCall.value = U(39) + 900 /\ scoreCall.optimal = <<20, 30>>
    /\ IsNear(scoreReturn, U(50) + 500)
    /\ DoubleCmp(scoreReturn, DoubleOf(U(50) + 500)) > 0

\* C18 (midpoint): for every profile and parameter a value exactly at
\* (min + max) / 2 gets sub-score 100.
C18_MidpointScore ==
    scoreCall # NoRow
    /\ 2 * scoreCall.value = U(scoreCall.optimal[1]) + U(scoreCall.optimal[2])
        => scoreReturn = DoubleOf(U(100))

\* C18 witness: 72.5, the midpoint of the spinach soil moisture range, was
\* scored 100.
C18_Witness ==
    /\ scoreCall # NoRow
    /\ scoreCall.value = U(72) + 500 /\ scoreCall.optimal = <<60, 85>>
    /\ scoreReturn = DoubleOf(U(100))

\* C19 (edges): for every profile and parameter a value exactly at min or
\* exactly at max gets sub-score 80.
C19_EdgeScore ==
    scoreCall # NoRow
    /\ scoreCall.value \in {U(scoreCall.optimal[1]), U(scoreCall.optimal[2])}
        => scoreReturn = DoubleOf(U(80))

\* C19 witness: 85, the max of the spinach soil moisture range, was scored
\* 80.
C19_Witness ==
    /\ scoreCall # NoRow
    /\ scoreCall.value = U(85) /\ scoreCall.optimal = <<60, 85>>
    /\ scoreReturn = DoubleOf(U(80))

\* The four sub-scores of a crop for a row, each against the crop's own
\* range, and their sum as a real number (in units of 2^-90).
FourScores(sensorData, profile) ==
    [i \in 1..Len(ScoredParameters) |->
        calculateParameterScore(sensorData[ScoredParameters[i]].v,
                                profile.optimal[ScoredParameters[i]])]

ExactSum(scores) ==
    BigAdd(BigAdd(scores[1].mag, scores[2].mag), BigAdd(scores[3].mag, scores[4].mag))

\* k is the mean of the four sub-scores rounded to the nearest integer, a
\* mean ending in .5 going upwards, when the mean is known up to slack / 4
\* (in units of 2^-90): k - 1/2 <= sum / 4 < k + 1/2 for a sum that far off.
IsRoundedMean(k, scores, slack) ==
    /\ BigCmp(BigShl(BigOf(4 * k - 2), 90), BigAdd(ExactSum(scores), slack)) <= 0
    /\ BigCmp(ExactSum(scores), BigAdd(BigShl(BigOf(4 * k + 2), 90), slack)) < 0

\* The row with other values in the fields the scoring does not read.
WithOtherFields(row, other) ==
    [row EXCEPT !.soil_humidity = Num(other[1]), !.pressure = Num(other[2]),
                !.rainfall = Num(other[3]), !.ammonia = Num(other[4])]

\* In the list the latest call generated the score of every crop is the rounded mean
\* (up to slack) of the four sub-scores of soil moisture, soil temperature,
\* air temperature and air humidity against the crop's own ranges; soil
\* humidity, pressure, rainfall and ammonia do not change it; and the answer
\* is the list generated.
MeanOfFour(slack) ==
    /\ cropReqs # <<>> /\ cropReqs[Len(cropReqs)].stage = "generated" =>
          LET call == cropReqs[Len(cropReqs)]
          IN  \A i \in 1..Len(call.recommendations) :
                  LET rec == call.recommendations[i]
                      profile == ProfileOf(rec.crop_type)
                      scores == FourScores(call.sensorData, profile)
                  IN  /\ IsRoundedMean(rec.suitability_score, scores, slack)
                      /\ \A other \in OtherFields :
                            CropScore(WithOtherFields(call.sensorData, other), profile)
                                = rec.suitability_score
    /\ CropAnswered /\ cropReqs = <<>> /\ cropTable = <<>> =>
          cropResponse.recommendations = generateCropRecommendations(sensor)

\* C20 as stated (overall score): the score of every crop is the rounded
\* arithmetic mean of exactly its four sub-scores.
C20_ExactRoundedMean == MeanOfFour(<<>>)

\* C20 (overall score), amended: the score of every crop is the arithmetic
\* mean of its four sub-scores rounded to the nearest integer as the doubles
\* of the program give it: it is the rounding of a number within 2^-40 of
\* the mean, so next to a mean ending in .5 it can be either neighbour.
C20_RoundedMean == MeanOfFour(BigShl(<<1>>, 52))

\* C20 witness: the endpoint has answered the row 78.9 / 10.7 / 2.6 / 59.5.
\* The tomato sub-scores are the double next below 55.5, 63.5, 20 and 99 and
\* tomatoes have score 59, the sum being the double below 238; the carrot
\* sub-scores are the double next below 80.5, 93.5, 33 and 99 and carrots
\* have score 77, the sum being rounded to 306.
C20_Witness ==
    /\ sensor.soil_moisture = Num(U(78) + 900) /\ sensor.soil_temperature = Num(U(10) + 700)
    /\ sensor.air_temperature = Num(U(2) + 600) /\ sensor.air_humidity = Num(U(59) + 500)
    /\ CropAnswered
    /\ ScoreIn(cropResponse.recommendations, "Tomatoes") = 59
    /\ ScoreIn(cropResponse.recommendations, "Carrots") = 77

\* The place of a crop in the profile table.
ProfileIndex(crop_type) ==
    CHOOSE i \in 1..Len(CropProfiles) : CropProfiles[i].crop_type = crop_type

\* recs holds every crop of the profile table exactly once, in descending
\* order of score, crops of equal score in the order of the profile table.
IsStableRanking(recs) ==
    /\ Len(recs) = Len(CropProfiles)
    /\ \A p \in 1..Len(CropProfiles) :
          \E i \in 1..Len(recs) : recs[i].crop_type = CropProfiles[p].crop_type
    /\ \A i, j \in 1..Len(recs) :
          i < j =>
              /\ recs[i].suitability_score >= recs[j].suitability_score
              /\ recs[i].suitability_score = recs[j].suitability_score =>
                    ProfileIndex(recs[i].crop_type) < ProfileIndex(recs[j].crop_type)

\* C21 (ranking): the list of recommendations is a permutation of the
\* profile table sorted by score in descending order, crops of equal score
\* keeping their order from the profile table; this holds for the list a
\* call generates and for the list the endpoint answers.
C21_StableRanking == \A recs \in CropLists : IsStableRanking(recs)

\* C21 witness: the endpoint has answered a list that is not in the order
\* of the profile table and in which two neighbours have the same score.
C21_Witness ==
    /\ CropAnswered
    /\ \E i \in 1..(Len(cropResponse.recommendations) - 1) :
          /\ cropResponse.recommendations[i].suitability_score
                = cropResponse.recommendations[i + 1].suitability_score
          /\ cropResponse.recommendations[i].suitability_score > 20
    /\ \E i \in 1..(Len(cropResponse.recommendations) - 1) :
          ProfileIndex(cropResponse.recommendations[i].crop_type)
              > ProfileIndex(cropResponse.recommendations[i + 1].crop_type)

\* C22 (advice by score band): for every crop of a list, a score of 80 or
\* more gives the crop's fixed positive message alone; a score of 60 to 79
\* gives a message in which at least one of the two interpolated parts names
\* a parameter and its direction; a score below 60 gives a warning whose
\* interpolated part names a parameter and its direction.
C22_AdviceByBand ==
    \A recs \in CropLists : \A i \in 1..Len(recs) :
        LET text == recs[i].recommendation_text
        IN  /\ recs[i].suitability_score >= 80 => Len(text) = 1
            /\ recs[i].suitability_score >= 60 /\ recs[i].suitability_score < 80 =>
                  Len(text) = 3 /\ (text[2] # "" \/ text[3] # "")
            /\ recs[i].suitability_score < 60 => Len(text) = 3 /\ text[2] # ""

FromMidpoint(call) == Abs(2 * call.value - U(call.optimal[1]) - U(call.optimal[2]))

\* C28 (monotone sub-score): of two calls with the same range (min < max),
\* the one whose value is farther from the midpoint, and so also the one
\* whose value is outside the range when the other is inside, never gets the
\* higher score.
C28_NoIncreaseAwayFromMidpoint ==
    [][/\ scoreCall # NoRow
       /\ scoreCall'.optimal = scoreCall.optimal
       /\ scoreCall.optimal[1] < scoreCall.optimal[2]
       /\ FromMidpoint(scoreCall') >= FromMidpoint(scoreCall)
       => DoubleCmp(scoreReturn', scoreReturn) <= 0]_vars

\* C24 (manual override holds): while the current record is a manual one,
\* the next record to become current is written by the user (another toggle
\* or the switch to automatic), never by the system.
C24_ManualUntilUserSwitch ==
    [][/\ log # <<>>
       /\ Latest(log).mode = "manual"
       /\ log' # log
       => Latest(log').changed_by = "user"]_vars

\* A manual toggle (of the panel or of the dashboard) appends its record in
\* this step.
ToggleAppends ==
    /\ log # <<>>
    /\ log' = Append(log, Latest(log'))
    /\ Latest(log').mode = "manual"
    /\ Latest(log').changed_by = "user"

\* C26 (a toggle flips the motor): the record a manual toggle appends has
\* the status opposite to that of the record that was current when it was
\* appended.
C26_ToggleFlips ==
    [][ToggleAppends => Latest(log').status # Latest(log).status]_vars

\* C27 (one user request at a time): while a manual toggle or a switch to
\* automatic of the panel is in flight the isUpdating flag is set, so that
\* no second toggle or switch can be started.
C27_UpdatingWhilePending ==
    LET inFlight == {i \in 1..Len(pReqs) : pReqs[i].kind \in {"toggle", "switch"}}
    IN  Cardinality(inFlight) <= 1 /\ (inFlight # {} => isUpdating)

\* The body is a JSON object whose three fields pass the validation as
\* specified.
FieldsValid(body) ==
    /\ body.k = "object"
    /\ body.status.k = "boolean"
    /\ body.mode \in {Str("automatic"), Str("manual")}
    /\ body.changed_by \in {Str("system"), Str("user")}

\* The record specified for a valid body: its status, mode and changed_by,
\* and its reason or, without one (absent, null, empty, 0 or false), the
\* default text.
SpecifiedRow(body) ==
    MotorRow(body.status.v, body.mode.v,
             CASE body.reason.k = "string" /\ body.reason.v # "" -> <<body.reason.v>>
               [] body.reason.k = "num" /\ body.reason.v # 0 ->
                      <<"number", ToString(body.reason.v)>>
               [] body.reason = Bool(TRUE) -> <<"boolean", "true">>
               [] OTHER -> IF body.status.v
                           THEN <<"Motor", "activated", "via", body.mode.v, "mode">>
                           ELSE <<"Motor", "deactivated", "via", body.mode.v, "mode">>,
             body.changed_by.v)

\* The step answers a POST.
PostAnswered == motorPost' # motorPost

\* C25 as stated (validated or appended): a POST whose status is not a
\* boolean, whose mode is not automatic/manual or whose changed_by is not
\* system/user is answered 400 and leaves the log unchanged; every other
\* POST has appended exactly one record with the given values when it is
\* answered.
C25_ValidatedOrAppended ==
    [][PostAnswered =>
        LET body == motorPost'.body
            response == motorPost'.response
        IN  IF FieldsValid(body)
            THEN \E i \in 1..Len(postReqs) :
                    /\ postReqs[i] = [stage |-> "inserted", body |-> body]
                    /\ postReqs' = RemoveAt(postReqs, i)
                    /\ SpecifiedRow(body) \in {log[j] : j \in 1..Len(log)}
            ELSE response.status = 400 /\ log' = log]_vars

\* C25 (outcomes of a POST): a body that does not parse or is null is
\* answered 500 and an other body with an invalid field 400, both without
\* an insert. A valid body gets at most one record inserted, with the given
\* values and the default reason when none is given; it is answered 200
\* with that record, after the insert, or 500 when the insert or the
\* connection failed, and then nothing was inserted for it. Nothing else
\* changes the log.
C25_PostOutcomes ==
    [][/\ PostAnswered =>
            LET body == motorPost'.body
                response == motorPost'.response
            IN  /\ log' = log
                /\ IF body.k \in {"malformed", "null"}
                   THEN response.status = 500 /\ postReqs' = postReqs
                   ELSE IF ~FieldsValid(body)
                   THEN response.status = 400 /\ postReqs' = postReqs
                   ELSE \/ /\ response.status = 200
                           /\ response.data = SpecifiedRow(body)
                           /\ faults' = faults
                           /\ \E i \in 1..Len(postReqs) :
                                 /\ postReqs[i] = [stage |-> "inserted", body |-> body]
                                 /\ postReqs' = RemoveAt(postReqs, i)
                        \/ /\ response.status = 500
                           /\ faults' < faults
                           /\ \/ postReqs' = postReqs
                              \/ \E i \in 1..Len(postReqs) :
                                    /\ postReqs[i] = [stage |-> "validated", body |-> body]
                                    /\ postReqs' = RemoveAt(postReqs, i)
       /\ log' # log =>
            \E i \in 1..Len(postReqs) :
                /\ postReqs[i].stage = "validated"
                /\ FieldsValid(postReqs[i].body)
                /\ log' = Append(log, SpecifiedRow(postReqs[i].body))
                /\ postReqs' = [postReqs EXCEPT ![i].stage = "inserted"]
                /\ motorPost' = motorPost]_vars

\* C25 witness: a valid POST without a reason was answered 200 and its
\* record, with the default reason, is the current one, after an earlier
\* record was appended too.
C25_Witness ==
    /\ motorPost # NoRow
    /\ motorPost.body.k = "object"
    /\ motorPost.body.reason = Undefined
    /\ motorPost.response.status = 200
    /\ Len(log) = 3
    /\ Latest(log) = MotorRow(TRUE, "manual", <<"Motor", "activated", "via", "manual", "mode">>,
                              "user")

\* C29 (SMS history): the stored history and the displayed one hold at most
\* 50 entries, newest first, and hold every SMS that was reported as sent
\* and has fewer than 50 newer ones.
C29_HistoryKeepsSent ==
    \A history \in {smsSaved, smsHistory} :
        /\ Len(history) <= HistoryLimit
        /\ \A i, j \in 1..Len(history) : i < j => history[i].id > history[j].id
        /\ \A r \in 1..Len(smsReported) :
              Len(smsReported) - r < HistoryLimit =>
                  \E i \in 1..Len(history) : history[i] = smsReported[r]

\* C30 (chat transcript): after the first (welcome) message the transcript
\* alternates user and assistant messages; it ends with a user message
\* exactly while the one request is in flight and the loading flag is set,
\* and with an assistant message otherwise.
C30_TranscriptAlternates ==
    chatMessages # <<>> =>
        /\ \A i \in 1..Len(chatMessages) :
              chatMessages[i].role = IF i % 2 = 0 THEN "user" ELSE "assistant"
        /\ chatLoading <=> chatMessages[Len(chatMessages)].role = "user"
        /\ chatLoading <=> Len(chatReqs) = 1
        /\ Len(chatReqs) <= 1

====
